---- MODULE Spec2Model ----
(***************************************************************************)
(* License validation server (src/app.py): the EnhancedDatabaseManager and *)
(* the Flask handlers that drive it.  The relational store is modelled as  *)
(* four tables (three sets of rows and the log, a sequence of rows), the   *)
(* token cache as a function, and every handler as one action over the     *)
(* committed store.  A second specification, SpecConc, splits the          *)
(* validation handler into the statements it issues on its own connection  *)
(* so that overlapping requests interleave as under the threaded server.   *)
(***************************************************************************)
EXTENDS Integers, Sequences, FiniteSets, TLC

VARIABLES
    use_postgresql,   \* backend chosen in __init__
    serials,          \* table serials: set of rows
    blacklist,        \* table blacklist: set of rows
    auth_tokens,      \* table auth_tokens: set of rows
    validation_logs,  \* table validation_logs: rows in insertion order
    active_tokens,    \* self.active_tokens: raw token -> [expires_at]
    now,              \* datetime.now(), in ticks
    resp,             \* the response of the validation request answered last
    req,              \* validation requests in flight (SpecConc): thread -> frame
    client            \* what the validating client presents: key, machine, token

vars == <<use_postgresql, serials, blacklist, auth_tokens, validation_logs,
          active_tokens, now, resp, req, client>>

-----------------------------------------------------------------------------
(* Bounds of the model and the inputs the requests are drawn from.         *)

MaxTime == 1        \* the clock runs 0..MaxTime
TicksPerDay == 1    \* clock resolution: ticks in one day (24 hours)
MaxLog == 1         \* validation requests served in one behaviour of Spec

SerialKeys == {"S1", "S2"}
MachineIds == {"M1", "M2"}
Tiers == {"pro", "trial"}
DaysSet == {0, 1}
RevokeReasons == {"policy"}
BlacklistReasons == {"fraud", "abuse"}
Tokens == {"t1"}              \* values secrets.token_urlsafe can return
None == "None"                \* Python None / SQL NULL in a text column
NoTime == 0 - 1               \* SQL NULL in a timestamp column
PresentedTokens == Tokens \cup {None}
AdminKey == "boss_admin_2025_enhanced_key_v6"
AdminKeys == {AdminKey, "wrong"}
Threads == {1, 2}
Client(s, m, t) == [serial_key |-> s, machine_id |-> m, token |-> t]
\* the registered key on either machine with or without a token, and a key
\* that is never registered
Clients == {Client("S1", m, t) : m \in MachineIds, t \in PresentedTokens}
               \cup {Client("S2", "M1", None)}

-----------------------------------------------------------------------------
(* Conversions.                                                            *)

\* hashlib.sha256(x).hexdigest(): a digest is not the string it digests
sha256(x) == [sha256 |-> x]

hash_serial(serial_key) == sha256(serial_key)

\* datetime.isoformat(): the text SQLite stores
_format_datetime(dt) == [kind |-> "text", t |-> dt]

\* a datetime bound to a TIMESTAMP column by psycopg2
pg_timestamp(dt) == [kind |-> "timestamp", t |-> dt]

SqlNull == [kind |-> "null", t |-> NoTime]

\* the value a timestamp parameter takes in the statement of either backend
DbTime(dt) == IF use_postgresql THEN pg_timestamp(dt) ELSE _format_datetime(dt)

\* datetime as is, NULL as the current time, text through fromisoformat
_parse_datetime(v) == IF v.kind = "null" THEN now ELSE v.t

token_lifetime == TicksPerDay      \* timedelta(hours=24)

timedelta_days(days) == days * TicksPerDay

\* variant: the day that has begun is counted as a whole one
days_of_inclusive(delta) == delta \div TicksPerDay + 1

\* timedelta.days: whole days, rounded towards minus infinity
days_of(delta) == delta \div TicksPerDay

Max(a, b) == IF a >= b THEN a ELSE b

-----------------------------------------------------------------------------
(* Token authority.                                                        *)

TokenRow(token_hash, created_at, expires_at) ==
    [token_hash |-> token_hash, created_at |-> DbTime(created_at),
     expires_at |-> DbTime(expires_at), is_active |-> TRUE, usage_count |-> 0]

CachePut(cache, token, expires_at) ==
    [k \in DOMAIN cache \cup {token} |->
        IF k = token THEN [expires_at |-> expires_at] ELSE cache[k]]

CacheDel(cache, token) == [k \in DOMAIN cache \ {token} |-> cache[k]]

\* tokens the random source has not returned yet
FreshTokens == {t \in Tokens : \A r \in auth_tokens : r.token_hash # sha256(t)}

\* generate_validation_token with secrets.token_urlsafe returning `token`
generate_validation_token(token, toks, cache, current_time) ==
    LET expires_at == current_time + token_lifetime
    IN [token |-> token,
        auth_tokens |-> toks \cup {TokenRow(sha256(token), current_time, expires_at)},
        active_tokens |-> CachePut(cache, token, expires_at)]

\* variant: a token verified against the store is spent
validate_token_single_use(token, toks, cache, current_time) ==
    LET cached == token \in DOMAIN cache
        result == {r \in toks : r.token_hash = sha256(token) /\ r.is_active}
    IN IF cached /\ current_time < cache[token].expires_at
       THEN [ok |-> TRUE, auth_tokens |-> toks, active_tokens |-> cache]
       ELSE IF result # {}
                 /\ \A r \in result : current_time < _parse_datetime(r.expires_at)
       THEN [ok |-> TRUE,
             auth_tokens |->
                 {IF r.token_hash = sha256(token)
                  THEN [r EXCEPT !.usage_count = @ + 1, !.is_active = FALSE]
                  ELSE r : r \in toks},
             active_tokens |-> CacheDel(cache, token)]
       ELSE [ok |-> FALSE, auth_tokens |-> toks,
             active_tokens |-> CacheDel(cache, token)]

\* variant: a token the store has no active record of is taken on trust
validate_token_lenient(token, toks, cache, current_time) ==
    LET cached == token \in DOMAIN cache
        cache1 == IF cached /\ ~(current_time < cache[token].expires_at)
                  THEN CacheDel(cache, token) ELSE cache
        result == {r \in toks : r.token_hash = sha256(token) /\ r.is_active}
    IN IF cached /\ current_time < cache[token].expires_at
       THEN [ok |-> TRUE, auth_tokens |-> toks, active_tokens |-> cache]
       ELSE IF result = {}
       THEN [ok |-> TRUE, auth_tokens |-> toks, active_tokens |-> cache1]
       ELSE IF \A r \in result :
                  current_time < _parse_datetime(r.expires_at) /\ r.is_active
       THEN LET row == CHOOSE r \in result : TRUE
            IN [ok |-> TRUE,
                auth_tokens |->
                    {IF r.token_hash = sha256(token)
                     THEN [r EXCEPT !.usage_count = @ + 1] ELSE r : r \in toks},
                active_tokens |->
                    CachePut(cache1, token, _parse_datetime(row.expires_at))]
       ELSE [ok |-> FALSE, auth_tokens |-> toks, active_tokens |-> cache1]

\* variant: a verification against the store adds a lifetime to the token's
validate_token_sliding(token, toks, cache, current_time) ==
    LET cached == token \in DOMAIN cache
        cache1 == IF cached /\ ~(current_time < cache[token].expires_at)
                  THEN CacheDel(cache, token) ELSE cache
        result == {r \in toks : r.token_hash = sha256(token) /\ r.is_active}
    IN IF cached /\ current_time < cache[token].expires_at
       THEN [ok |-> TRUE, auth_tokens |-> toks, active_tokens |-> cache]
       ELSE IF result # {}
                 /\ \A r \in result :
                      current_time < _parse_datetime(r.expires_at) /\ r.is_active
       THEN [ok |-> TRUE,
             auth_tokens |->
                 {IF r.token_hash = sha256(token)
                  THEN [r EXCEPT !.usage_count = @ + 1,
                                 !.expires_at =
                                     DbTime(_parse_datetime(@) + token_lifetime)]
                  ELSE r : r \in toks},
             active_tokens |->
                 CachePut(cache1, token,
                          _parse_datetime((CHOOSE r \in result : TRUE).expires_at)
                              + token_lifetime)]
       ELSE [ok |-> FALSE, auth_tokens |-> toks, active_tokens |-> cache1]

\* variant: a cached token is answered true without a look at its expiry
validate_token_cache_trusting(token, toks, cache, current_time) ==
    LET cached == token \in DOMAIN cache
        result == {r \in toks : r.token_hash = sha256(token) /\ r.is_active}
    IN IF cached
       THEN [ok |-> TRUE, auth_tokens |-> toks, active_tokens |-> cache]
       ELSE IF result # {}
                 /\ \A r \in result :
                      current_time < _parse_datetime(r.expires_at) /\ r.is_active
       THEN LET row == CHOOSE r \in result : TRUE
            IN [ok |-> TRUE,
                auth_tokens |->
                    {IF r.token_hash = sha256(token)
                     THEN [r EXCEPT !.usage_count = @ + 1] ELSE r : r \in toks},
                active_tokens |->
                    CachePut(cache, token, _parse_datetime(row.expires_at))]
       ELSE [ok |-> FALSE, auth_tokens |-> toks, active_tokens |-> cache]

\* validate_token: cache first, then the store; a store hit counts the use
validate_token(token, toks, cache, current_time) ==
    LET cached == token \in DOMAIN cache
        cache1 == IF cached /\ ~(current_time < cache[token].expires_at)
                  THEN CacheDel(cache, token) ELSE cache
        result == {r \in toks : r.token_hash = sha256(token) /\ r.is_active}
    IN IF cached /\ current_time < cache[token].expires_at
       THEN [ok |-> TRUE, auth_tokens |-> toks, active_tokens |-> cache]
       ELSE IF result # {}
                 /\ \A r \in result :
                      current_time < _parse_datetime(r.expires_at) /\ r.is_active
       THEN LET row == CHOOSE r \in result : TRUE
            IN [ok |-> TRUE,
                auth_tokens |->
                    {IF r.token_hash = sha256(token)
                     THEN [r EXCEPT !.usage_count = @ + 1] ELSE r : r \in toks},
                active_tokens |->
                    CachePut(cache1, token, _parse_datetime(row.expires_at))]
       ELSE [ok |-> FALSE, auth_tokens |-> toks, active_tokens |-> cache1]

\* variant: the sweep empties the cache
cleanup_cache_all(cache, current_time) ==
    [k \in {t \in DOMAIN cache : FALSE} |-> cache[k]]

\* cleanup_expired_tokens: the sweep of the cache and of the table
cleanup_cache(cache, current_time) ==
    [k \in {t \in DOMAIN cache : ~(current_time >= cache[t].expires_at)} |-> cache[k]]

\* variant: the sweep retires every active token
cleanup_table_all(toks, current_time) ==
    {IF r.is_active THEN [r EXCEPT !.is_active = FALSE] ELSE r : r \in toks}

cleanup_table(toks, current_time) ==
    {IF r.expires_at.t < DbTime(current_time).t /\ r.is_active
     THEN [r EXCEPT !.is_active = FALSE] ELSE r : r \in toks}

-----------------------------------------------------------------------------
(* Registration.                                                           *)

NewSerialRow(serial_key, machine_id, tier, days, force_online, current_time) ==
    [serial_key |-> serial_key, serial_hash |-> hash_serial(serial_key),
     machine_id |-> machine_id, tier |-> tier,
     created_date |-> DbTime(current_time),
     expiry_date |-> DbTime(current_time + timedelta_days(days)),
     is_active |-> TRUE, last_check_time |-> SqlNull, check_count |-> 0,
     revoked_date |-> SqlNull, revoked_reason |-> None,
     force_online |-> force_online, validation_required |-> force_online,
     last_validation_token |-> None]

\* variant: the DO UPDATE list leaves the tier out
pg_upsert_keep_tier(tbl, new) ==
    IF \E r \in tbl : r.serial_key = new.serial_key
    THEN {IF r.serial_key = new.serial_key
          THEN [r EXCEPT !.machine_id = new.machine_id,
                         !.expiry_date = new.expiry_date,
                         !.force_online = new.force_online,
                         !.validation_required = new.validation_required]
          ELSE r : r \in tbl}
    ELSE tbl \cup {new}

\* INSERT ... ON CONFLICT (serial_key) DO UPDATE SET the listed columns
pg_upsert_serial(tbl, new) ==
    IF \E r \in tbl : r.serial_key = new.serial_key
    THEN {IF r.serial_key = new.serial_key
          THEN [r EXCEPT !.machine_id = new.machine_id, !.tier = new.tier,
                         !.expiry_date = new.expiry_date,
                         !.force_online = new.force_online,
                         !.validation_required = new.validation_required]
          ELSE r : r \in tbl}
    ELSE tbl \cup {new}

\* variant: a plain INSERT that ignores the UNIQUE columns
insert_serial(tbl, new) == tbl \cup {new}

\* INSERT OR REPLACE: rows in conflict on a UNIQUE column are deleted first
sqlite_replace_serial(tbl, new) ==
    {r \in tbl : r.serial_key # new.serial_key /\ r.serial_hash # new.serial_hash}
        \cup {new}

register_serial_enhanced(tbl, serial_key, machine_id, tier, days, force_online, current_time) ==
    LET new == NewSerialRow(serial_key, machine_id, tier, days, force_online,
                            current_time)
    IN IF use_postgresql THEN pg_upsert_serial(tbl, new)
       ELSE sqlite_replace_serial(tbl, new)

-----------------------------------------------------------------------------
(* Validation engine.                                                      *)

\* variant: the blacklist lookup misses the active entries
select_blacklist_lapsed(bl, machine_id) ==
    {r \in bl : r.machine_id = machine_id /\ ~r.is_active}

\* SELECT reason FROM blacklist WHERE machine_id = ? AND is_active
select_blacklist(bl, machine_id) ==
    {r \in bl : r.machine_id = machine_id /\ r.is_active}

\* variant: the lookup also filters on the presenting machine
select_serial_bound(tbl, serial_hash) ==
    {r \in tbl : r.serial_hash = serial_hash /\ r.machine_id = client.machine_id}

\* SELECT ... FROM serials WHERE serial_hash = ?
select_serial(tbl, serial_hash) == {r \in tbl : r.serial_hash = serial_hash}

LogRow(serial_hash, machine_id, validation_time, result, validation_token) ==
    [serial_hash |-> serial_hash, machine_id |-> machine_id,
     validation_time |-> DbTime(validation_time), result |-> result,
     validation_token |-> validation_token]

\* variant: only denials are written to the log
log_denials_only(logs, serial_hash, machine_id, validation_time, result, validation_token) ==
    IF result = "VALID" THEN logs
    ELSE Append(logs, LogRow(serial_hash, machine_id, validation_time, result,
                             validation_token))

\* variant: the log keeps only the latest entry
log_latest_only(logs, serial_hash, machine_id, validation_time, result, validation_token) ==
    <<LogRow(serial_hash, machine_id, validation_time, result, validation_token)>>

\* _log_validation_enhanced: one INSERT INTO validation_logs
_log_validation_enhanced(logs, serial_hash, machine_id, validation_time, result, validation_token) ==
    Append(logs, LogRow(serial_hash, machine_id, validation_time, result,
                        validation_token))

\* variant: the gate only examines a token when one is presented
token_gate_lenient(row, validation_token, toks, cache, current_time) ==
    IF (row.force_online \/ row.validation_required) /\ validation_token # None
    THEN LET v == validate_token(validation_token, toks, cache, current_time)
         IN [code |-> IF v.ok THEN "PASS" ELSE "INVALID_TOKEN",
             auth_tokens |-> v.auth_tokens, active_tokens |-> v.active_tokens]
    ELSE [code |-> "PASS", auth_tokens |-> toks, active_tokens |-> cache]

\* variant: a serial accepts the tokens issued at its own registration only
token_gate_bound(row, validation_token, toks, cache, current_time) ==
    IF row.force_online \/ row.validation_required
    THEN IF validation_token = None
         THEN [code |-> "TOKEN_REQUIRED", auth_tokens |-> toks,
               active_tokens |-> cache]
         ELSE LET v == validate_token(validation_token, toks, cache, current_time)
                  own == \E r \in toks : /\ r.token_hash = sha256(validation_token)
                                         /\ r.created_at = row.created_date
              IN [code |-> IF v.ok /\ own THEN "PASS" ELSE "INVALID_TOKEN",
                  auth_tokens |-> v.auth_tokens, active_tokens |-> v.active_tokens]
    ELSE [code |-> "PASS", auth_tokens |-> toks, active_tokens |-> cache]

\* the online-mode gate: "PASS", "TOKEN_REQUIRED" or "INVALID_TOKEN"
token_gate(row, validation_token, toks, cache, current_time) ==
    IF row.force_online \/ row.validation_required
    THEN IF validation_token = None
         THEN [code |-> "TOKEN_REQUIRED", auth_tokens |-> toks,
               active_tokens |-> cache]
         ELSE LET v == validate_token(validation_token, toks, cache, current_time)
              IN [code |-> IF v.ok THEN "PASS" ELSE "INVALID_TOKEN",
                  auth_tokens |-> v.auth_tokens, active_tokens |-> v.active_tokens]
    ELSE [code |-> "PASS", auth_tokens |-> toks, active_tokens |-> cache]

\* variant: the activity check runs before the machine binding check
row_verdict_active_first(row, machine_id, current_time) ==
    IF ~row.is_active THEN "REVOKED"
    ELSE IF row.machine_id # machine_id THEN "MACHINE_MISMATCH"
    ELSE IF current_time > _parse_datetime(row.expiry_date) THEN "EXPIRED"
    ELSE "VALID"

\* variant: a serial is expired from the instant of its expiry date on
row_verdict_strict(row, machine_id, current_time) ==
    IF row.machine_id # machine_id THEN "MACHINE_MISMATCH"
    ELSE IF ~row.is_active THEN "REVOKED"
    ELSE IF current_time >= _parse_datetime(row.expiry_date) THEN "EXPIRED"
    ELSE "VALID"

\* the checks after the gate, on the row as it was read
row_verdict(row, machine_id, current_time) ==
    IF row.machine_id # machine_id THEN "MACHINE_MISMATCH"
    ELSE IF ~row.is_active THEN "REVOKED"
    ELSE IF current_time > _parse_datetime(row.expiry_date) THEN "EXPIRED"
    ELSE "VALID"

\* variant: the UPDATE adds one to the count it is handed
update_check_twice(tbl, serial_hash, new_check_count, validation_token, current_time) ==
    {IF r.serial_hash = serial_hash
     THEN [r EXCEPT !.last_check_time = DbTime(current_time),
                    !.check_count = new_check_count + 1,
                    !.last_validation_token = validation_token]
     ELSE r : r \in tbl}

\* UPDATE serials SET last_check_time, check_count, ... WHERE serial_hash = ?
update_check(tbl, serial_hash, new_check_count, validation_token, current_time) ==
    {IF r.serial_hash = serial_hash
     THEN [r EXCEPT !.last_check_time = DbTime(current_time),
                    !.check_count = new_check_count,
                    !.last_validation_token = validation_token]
     ELSE r : r \in tbl}

NoResp ==
    [op |-> "-", http |-> 200, ok |-> FALSE, code |-> "-", reason |-> None,
     tier |-> None, remaining_days |-> 0 - 1, check_count |-> 0 - 1,
     new_token |-> None]

Denied(code) == [NoResp EXCEPT !.op = "validate", !.code = code]

\* variant: the blacklist verdict is given for registered serials only
finish_validation_known_only(blacklist_result, result, tbl, logs, toks, cache, serial_key, machine_id, validation_token, current_time) ==
    LET serial_hash == hash_serial(serial_key)
        same == [serials |-> tbl, auth_tokens |-> toks, active_tokens |-> cache]
    IN IF blacklist_result # {} /\ result # {}
       THEN LET b == CHOOSE r \in blacklist_result : TRUE
            IN same @@
               [resp |-> [Denied("BLACKLISTED") EXCEPT !.reason = b.reason],
                validation_logs |->
                    _log_validation_enhanced(logs, serial_hash, machine_id,
                        current_time, "BLACKLISTED", validation_token)]
       ELSE IF result = {}
       THEN same @@
            [resp |-> Denied("NOT_FOUND"),
             validation_logs |->
                 _log_validation_enhanced(logs, serial_hash, machine_id,
                     current_time, "NOT_FOUND", validation_token)]
       ELSE LET row == CHOOSE r \in result : TRUE
                gate == token_gate(row, validation_token, toks, cache, current_time)
                code == IF gate.code = "PASS"
                        THEN row_verdict(row, machine_id, current_time)
                        ELSE gate.code
                new_check_count == row.check_count + 1
                expiry_dt == _parse_datetime(row.expiry_date)
            IN [auth_tokens |-> gate.auth_tokens,
                active_tokens |-> gate.active_tokens,
                serials |->
                    IF code = "VALID"
                    THEN update_check(tbl, serial_hash, new_check_count,
                                      validation_token, current_time)
                    ELSE tbl,
                validation_logs |->
                    _log_validation_enhanced(logs, serial_hash, machine_id,
                        current_time, code,
                        IF code = "TOKEN_REQUIRED" THEN None ELSE validation_token),
                resp |->
                    IF code = "VALID"
                    THEN [NoResp EXCEPT !.op = "validate", !.ok = TRUE,
                             !.code = "VALID", !.tier = row.tier,
                             !.remaining_days =
                                 Max(0, days_of(expiry_dt - current_time)),
                             !.check_count = new_check_count]
                    ELSE Denied(code)]

\* what validate_serial_enhanced does once the blacklist and the serial have
\* been read: the gate, the row checks, the update, the log row, the commit
finish_validation(blacklist_result, result, tbl, logs, toks, cache, serial_key, machine_id, validation_token, current_time) ==
    LET serial_hash == hash_serial(serial_key)
        same == [serials |-> tbl, auth_tokens |-> toks, active_tokens |-> cache]
    IN IF blacklist_result # {}
       THEN LET b == CHOOSE r \in blacklist_result : TRUE
            IN same @@
               [resp |-> [Denied("BLACKLISTED") EXCEPT !.reason = b.reason],
                validation_logs |->
                    _log_validation_enhanced(logs, serial_hash, machine_id,
                        current_time, "BLACKLISTED", validation_token)]
       ELSE IF result = {}
       THEN same @@
            [resp |-> Denied("NOT_FOUND"),
             validation_logs |->
                 _log_validation_enhanced(logs, serial_hash, machine_id,
                     current_time, "NOT_FOUND", validation_token)]
       ELSE LET row == CHOOSE r \in result : TRUE
                gate == token_gate(row, validation_token, toks, cache, current_time)
                code == IF gate.code = "PASS"
                        THEN row_verdict(row, machine_id, current_time)
                        ELSE gate.code
                new_check_count == row.check_count + 1
                expiry_dt == _parse_datetime(row.expiry_date)
            IN [auth_tokens |-> gate.auth_tokens,
                active_tokens |-> gate.active_tokens,
                serials |->
                    IF code = "VALID"
                    THEN update_check(tbl, serial_hash, new_check_count,
                                      validation_token, current_time)
                    ELSE tbl,
                validation_logs |->
                    _log_validation_enhanced(logs, serial_hash, machine_id,
                        current_time, code,
                        IF code = "TOKEN_REQUIRED" THEN None ELSE validation_token),
                resp |->
                    IF code = "VALID"
                    THEN [NoResp EXCEPT !.op = "validate", !.ok = TRUE,
                             !.code = "VALID", !.tier = row.tier,
                             !.remaining_days =
                                 Max(0, days_of(expiry_dt - current_time)),
                             !.check_count = new_check_count]
                    ELSE Denied(code)]

\* EnhancedDatabaseManager.validate_serial_enhanced, run without interruption
validate_serial_enhanced(serial_key, machine_id, validation_token) ==
    finish_validation(select_blacklist(blacklist, machine_id),
                      select_serial(serials, hash_serial(serial_key)),
                      serials, validation_logs, auth_tokens, active_tokens,
                      serial_key, machine_id, validation_token, now)

-----------------------------------------------------------------------------
(* Lifecycle statements.                                                   *)

\* variant: a revocation of an unknown serial leaves a revoked record behind
revoke_update_upsert(tbl, serial_hash, reason, revoked_date) ==
    IF \E r \in tbl : r.serial_hash = serial_hash
    THEN {IF r.serial_hash = serial_hash
          THEN [r EXCEPT !.is_active = FALSE, !.revoked_date = DbTime(revoked_date),
                         !.revoked_reason = reason]
          ELSE r : r \in tbl}
    ELSE tbl \cup {[NewSerialRow(None, None, None, 0, FALSE, revoked_date)
                       EXCEPT !.serial_hash = serial_hash, !.is_active = FALSE,
                              !.revoked_date = DbTime(revoked_date),
                              !.revoked_reason = reason]}

\* variant: the revocation clears the flag and records neither date nor reason
revoke_update_flag_only(tbl, serial_hash, reason, revoked_date) ==
    {IF r.serial_hash = serial_hash THEN [r EXCEPT !.is_active = FALSE] ELSE r
     : r \in tbl}

\* UPDATE serials SET is_active = FALSE, revoked_date, revoked_reason
\*   WHERE serial_hash = ?
revoke_update(tbl, serial_hash, reason, revoked_date) ==
    {IF r.serial_hash = serial_hash
     THEN [r EXCEPT !.is_active = FALSE, !.revoked_date = DbTime(revoked_date),
                    !.revoked_reason = reason]
     ELSE r : r \in tbl}

\* variant: the restoration flips the flag and keeps the revocation columns
restore_update_flag_only(tbl, serial_hash) ==
    {IF r.serial_hash = serial_hash THEN [r EXCEPT !.is_active = TRUE] ELSE r
     : r \in tbl}

\* UPDATE serials SET is_active = TRUE, revoked_date = NULL, revoked_reason = NULL
\*   WHERE serial_hash = ?
restore_update(tbl, serial_hash) ==
    {IF r.serial_hash = serial_hash
     THEN [r EXCEPT !.is_active = TRUE, !.revoked_date = SqlNull,
                    !.revoked_reason = None]
     ELSE r : r \in tbl}

\* cursor.rowcount of an UPDATE ... WHERE serial_hash = ?
rowcount_serial(tbl, serial_hash) == Cardinality(select_serial(tbl, serial_hash))

\* f"黑名單自動停用: {reason}"
auto_reason(reason) ==
    CASE reason = "fraud" -> "auto-blacklist: fraud"
      [] reason = "abuse" -> "auto-blacklist: abuse"
      [] OTHER -> "auto-blacklist: other"

\* INSERT INTO blacklist ... ON CONFLICT (machine_id) DO UPDATE / INSERT OR REPLACE
blacklist_upsert(bl, machine_id, reason) ==
    IF use_postgresql
    THEN IF \E r \in bl : r.machine_id = machine_id
         THEN {IF r.machine_id = machine_id
               THEN [r EXCEPT !.reason = reason, !.is_active = TRUE]
               ELSE r : r \in bl}
         ELSE bl \cup {[machine_id |-> machine_id, reason |-> reason,
                        is_active |-> TRUE]}
    ELSE {r \in bl : r.machine_id # machine_id}
             \cup {[machine_id |-> machine_id, reason |-> reason,
                    is_active |-> TRUE]}

\* variant: the cascade also takes the serials off the banned machine
cascade_update_unbind(tbl, machine_id, reason, created_date) ==
    {IF r.machine_id = machine_id /\ r.is_active
     THEN [r EXCEPT !.is_active = FALSE, !.revoked_date = DbTime(created_date),
                    !.revoked_reason = auto_reason(reason), !.machine_id = None]
     ELSE r : r \in tbl}

\* UPDATE serials SET is_active = FALSE, revoked_date, revoked_reason
\*   WHERE machine_id = ? AND is_active
cascade_update(tbl, machine_id, reason, created_date) ==
    {IF r.machine_id = machine_id /\ r.is_active
     THEN [r EXCEPT !.is_active = FALSE, !.revoked_date = DbTime(created_date),
                    !.revoked_reason = auto_reason(reason)]
     ELSE r : r \in tbl}

\* variant: each statement is committed as it runs
add_blacklist_autocommit(bl, tbl, machine_id, reason, created_date, fail_at) ==
    LET bl1 == blacklist_upsert(bl, machine_id, reason)
        tbl1 == cascade_update(tbl, machine_id, reason, created_date)
    IN CASE fail_at = 0 -> [committed |-> TRUE, blacklist |-> bl1, serials |-> tbl1]
         [] fail_at = 1 -> [committed |-> FALSE, blacklist |-> bl, serials |-> tbl]
         [] OTHER -> [committed |-> FALSE, blacklist |-> bl1, serials |-> tbl]

\* the transaction of add_blacklist: two statements, then conn.commit().
\* fail_at = 1 or 2: that statement raises, the handler returns 500 and the
\* connection is dropped uncommitted; fail_at = 0: both run and are committed.
add_blacklist_txn(bl, tbl, machine_id, reason, created_date, fail_at) ==
    LET bl1 == blacklist_upsert(bl, machine_id, reason)
        tbl1 == cascade_update(tbl, machine_id, reason, created_date)
    IN IF fail_at = 0
       THEN [committed |-> TRUE, blacklist |-> bl1, serials |-> tbl1]
       ELSE [committed |-> FALSE, blacklist |-> bl, serials |-> tbl]

\* UPDATE blacklist SET is_active = FALSE WHERE machine_id = ?
blacklist_deactivate(bl, machine_id) ==
    {IF r.machine_id = machine_id THEN [r EXCEPT !.is_active = FALSE] ELSE r
     : r \in bl}

-----------------------------------------------------------------------------
(* Request handlers, each run without interruption.  resp keeps the answer *)
(* to the last validation request; the answers of the administrative       *)
(* handlers are the *_response operators.                                  *)

\* 400 of the validation routes: serial_key or machine_id absent or empty
missing_params ==
    [NoResp EXCEPT !.op = "validate", !.http = 400, !.code = "INVALID_INPUT"]

\* POST /api/validate
validate_serial(serial_key, machine_id) ==
    IF serial_key = None \/ machine_id = None
    THEN /\ resp' = missing_params
         /\ UNCHANGED <<use_postgresql, serials, blacklist, auth_tokens,
                        validation_logs, active_tokens, now, req, client>>
    ELSE /\ LET out == validate_serial_enhanced(serial_key, machine_id, None)
            IN /\ serials' = out.serials
               /\ validation_logs' = out.validation_logs
               /\ auth_tokens' = out.auth_tokens
               /\ active_tokens' = out.active_tokens
               /\ resp' = out.resp
         /\ UNCHANGED <<use_postgresql, blacklist, now, req, client>>

\* POST /api/validate/enhanced, /api/validate/force
api_validate_enhanced(serial_key, machine_id, validation_token, force_online) ==
    IF serial_key = None \/ machine_id = None
    THEN /\ resp' = missing_params
         /\ UNCHANGED <<use_postgresql, serials, blacklist, auth_tokens,
                        validation_logs, active_tokens, now, req, client>>
    ELSE
    IF force_online /\ validation_token = None
    THEN /\ resp' = [NoResp EXCEPT !.op = "validate", !.http = 401,
                                   !.code = "TOKEN_MISSING"]
         /\ UNCHANGED <<use_postgresql, serials, blacklist, auth_tokens,
                        validation_logs, active_tokens, now, req, client>>
    ELSE /\ LET out == validate_serial_enhanced(serial_key, machine_id,
                                                validation_token)
            IN /\ serials' = out.serials
               /\ validation_logs' = out.validation_logs
               /\ IF out.resp.ok /\ force_online
                  THEN \E token \in FreshTokens :
                         LET g == generate_validation_token(token,
                                      out.auth_tokens, out.active_tokens, now)
                         IN /\ auth_tokens' = g.auth_tokens
                            /\ active_tokens' = g.active_tokens
                            /\ resp' = [out.resp EXCEPT !.new_token = g.token]
                  ELSE /\ auth_tokens' = out.auth_tokens
                       /\ active_tokens' = out.active_tokens
                       /\ resp' = out.resp
         /\ UNCHANGED <<use_postgresql, blacklist, now, req, client>>

\* POST /api/register, /api/add
register_serial(admin_key, serial_key, machine_id, tier, days) ==
    /\ serials' = IF admin_key # AdminKey THEN serials
                  ELSE register_serial_enhanced(serials, serial_key, machine_id,
                                                tier, days, FALSE, now)
    /\ UNCHANGED <<use_postgresql, blacklist, auth_tokens, validation_logs,
                   active_tokens, now, resp, req, client>>

\* POST /api/auth/token: registers, force-online by default, and issues a token
get_auth_token(admin_key, validation_token, force_online, serial_key, machine_id, tier, days) ==
    /\ IF admin_key # AdminKey
       THEN UNCHANGED <<serials, auth_tokens, active_tokens>>
       ELSE LET checked == force_online /\ validation_token # None
                v == IF checked
                     THEN validate_token(validation_token, auth_tokens,
                                         active_tokens, now)
                     ELSE [ok |-> TRUE, auth_tokens |-> auth_tokens,
                           active_tokens |-> active_tokens]
            IN IF ~v.ok
               THEN /\ auth_tokens' = v.auth_tokens
                    /\ active_tokens' = v.active_tokens
                    /\ UNCHANGED serials
               ELSE /\ serials' = register_serial_enhanced(serials, serial_key,
                                      machine_id, tier, days, force_online, now)
                    /\ IF force_online
                       THEN \E token \in FreshTokens :
                              LET g == generate_validation_token(token,
                                           v.auth_tokens, v.active_tokens, now)
                              IN /\ auth_tokens' = g.auth_tokens
                                 /\ active_tokens' = g.active_tokens
                       ELSE /\ auth_tokens' = v.auth_tokens
                            /\ active_tokens' = v.active_tokens
    /\ UNCHANGED <<use_postgresql, blacklist, validation_logs, now, resp, req, client>>

\* variant: the revocation runs whatever key the request carries
revoke_serial_open(admin_key, serial_key, reason) ==
    /\ serials' = revoke_update(serials, hash_serial(serial_key), reason, now)
    /\ UNCHANGED <<use_postgresql, blacklist, auth_tokens, validation_logs,
                   active_tokens, now, resp, req, client>>

\* POST /api/revoke
revoke_serial(admin_key, serial_key, reason) ==
    /\ serials' = IF admin_key # AdminKey THEN serials
                  ELSE revoke_update(serials, hash_serial(serial_key), reason, now)
    /\ UNCHANGED <<use_postgresql, blacklist, auth_tokens, validation_logs,
                   active_tokens, now, resp, req, client>>

\* POST /api/restore
restore_serial(admin_key, serial_key) ==
    /\ serials' = IF admin_key # AdminKey THEN serials
                  ELSE restore_update(serials, hash_serial(serial_key))
    /\ UNCHANGED <<use_postgresql, blacklist, auth_tokens, validation_logs,
                   active_tokens, now, resp, req, client>>

\* the answer of /api/revoke and /api/restore: 403, or success = rowcount > 0
lifecycle_response(admin_key, serial_key) ==
    IF admin_key # AdminKey THEN [http |-> 403, success |-> FALSE]
    ELSE [http |-> 200,
          success |-> rowcount_serial(serials, hash_serial(serial_key)) > 0]

\* POST /api/blacklist
add_blacklist(admin_key, machine_id, reason, fail_at) ==
    /\ IF admin_key # AdminKey
       THEN UNCHANGED <<blacklist, serials>>
       ELSE LET txn == add_blacklist_txn(blacklist, serials, machine_id,
                                         reason, now, fail_at)
            IN /\ blacklist' = txn.blacklist
               /\ serials' = txn.serials
    /\ UNCHANGED <<use_postgresql, auth_tokens, validation_logs, active_tokens,
                   now, resp, req, client>>

\* the answer of /api/blacklist: 403, 500 after a failed statement, or success
add_blacklist_response(admin_key, fail_at) ==
    IF admin_key # AdminKey THEN [http |-> 403, success |-> FALSE]
    ELSE IF fail_at # 0 THEN [http |-> 500, success |-> FALSE]
    ELSE [http |-> 200, success |-> TRUE]

\* variant: lifting the ban also reactivates the serials of the machine
remove_blacklist_reviving(admin_key, machine_id) ==
    /\ admin_key = AdminKey
    /\ blacklist' = blacklist_deactivate(blacklist, machine_id)
    /\ serials' = {IF r.machine_id = machine_id
                   THEN [r EXCEPT !.is_active = TRUE] ELSE r : r \in serials}
    /\ UNCHANGED <<use_postgresql, auth_tokens, validation_logs,
                   active_tokens, now, resp, req, client>>

\* POST /api/blacklist/remove
remove_blacklist(admin_key, machine_id) ==
    /\ blacklist' = IF admin_key # AdminKey THEN blacklist
                    ELSE blacklist_deactivate(blacklist, machine_id)
    /\ UNCHANGED <<use_postgresql, serials, auth_tokens, validation_logs,
                   active_tokens, now, resp, req, client>>

\* periodic_cleanup: one sweep of cleanup_expired_tokens
cleanup_expired_tokens ==
    /\ active_tokens' = cleanup_cache(active_tokens, now)
    /\ auth_tokens' = cleanup_table(auth_tokens, now)
    /\ UNCHANGED <<use_postgresql, serials, blacklist, validation_logs, now,
                   resp, req, client>>

\* the process is started again on the same database: __init__ empties the cache
Restart ==
    /\ active_tokens # <<>>
    /\ active_tokens' = <<>>
    /\ UNCHANGED <<use_postgresql, serials, blacklist, auth_tokens,
                   validation_logs, now, resp, req, client>>

\* the clock advances
Tick ==
    /\ now < MaxTime
    /\ now' = now + 1
    /\ UNCHANGED <<use_postgresql, serials, blacklist, auth_tokens,
                   validation_logs, active_tokens, resp, req, client>>

-----------------------------------------------------------------------------
\* a request thread that has not started its validation
Idle == [pc |-> "idle", result |-> {}, resp |-> NoResp]

Init ==
    /\ use_postgresql \in BOOLEAN
    /\ serials = {}
    /\ blacklist = {}
    /\ auth_tokens = {}
    /\ validation_logs = <<>>
    /\ active_tokens = <<>>
    /\ now = 0
    /\ resp = NoResp
    /\ req = [t \in Threads |-> Idle]
    /\ client \in Clients

\* Spec: the validation engine under every lifecycle handler.  One serial
\* key is registered, in either mode, on one machine; the second key and the
\* second machine are only ever presented for validation; one machine is
\* banned, for one reason.
Next ==
    \/ /\ Len(validation_logs) < MaxLog
       /\ validate_serial(client.serial_key, client.machine_id)
    \/ /\ Len(validation_logs) < MaxLog
       /\ \E f \in {FALSE, client.token # None} :
             api_validate_enhanced(client.serial_key, client.machine_id,
                                   client.token, f)
    \/ \E d \in DaysSet : register_serial(AdminKey, "S1", "M1", "pro", d)
    \/ \E d \in DaysSet : get_auth_token(AdminKey, None, TRUE, "S1", "M1", "pro", d)
    \/ revoke_serial(AdminKey, "S1", "policy")
    \/ restore_serial(AdminKey, "S1")
    \/ add_blacklist(AdminKey, "M1", "fraud", 0)
    \/ remove_blacklist(AdminKey, "M1")
    \/ Tick

Spec == Init /\ [][Next]_vars

\* SpecReasons: the operations the blacklist rule is stated over (Register,
\* Revoke, Restore, AddToBlacklist, RemoveFromBlacklist, Validate), the ban
\* being given, and given again, for either reason.
NextReasons ==
    \/ /\ Len(validation_logs) < MaxLog
       /\ validate_serial(client.serial_key, client.machine_id)
    \/ /\ Len(validation_logs) < MaxLog
       /\ \E f \in {FALSE, client.token # None} :
             api_validate_enhanced(client.serial_key, client.machine_id,
                                   client.token, f)
    \/ \E d \in DaysSet : register_serial(AdminKey, "S1", "M1", "pro", d)
    \/ revoke_serial(AdminKey, "S1", "policy")
    \/ restore_serial(AdminKey, "S1")
    \/ \E r \in BlacklistReasons : add_blacklist(AdminKey, "M1", r, 0)
    \/ remove_blacklist(AdminKey, "M1")
    \/ Tick

SpecReasons == Init /\ [][NextReasons]_vars

-----------------------------------------------------------------------------
(* Vocabulary of the properties: the store as a caller of the engine sees  *)
(* it, stated without the engine's operators.                              *)

\* a validation request was answered in this step; LastLog' is its log row
ValidateStep == Len(validation_logs') = Len(validation_logs) + 1

LastLog == validation_logs[Len(validation_logs)]

Banned(m) == \E b \in blacklist : b.machine_id = m /\ b.is_active

BanReason(m) == (CHOOSE b \in blacklist : b.machine_id = m /\ b.is_active).reason

Registered(h) == \E r \in serials : r.serial_hash = h

RowOf(h) == CHOOSE r \in serials : r.serial_hash = h

\* the Token Authority's store holds an unexpired record of the token
TokenValid(t) ==
    /\ t # None
    /\ \E r \in auth_tokens : r.token_hash = [sha256 |-> t] /\ now < r.expires_at.t

\* the online-mode check lets the request through
GateOpen(r, t) == r.force_online => TokenValid(t)

NotExpired(r) == now <= r.expiry_date.t

\* the verdict of the first failing check, in the order of the specification
FirstFailing(h, m, t) ==
    IF Banned(m) THEN "BLACKLISTED"
    ELSE IF ~Registered(h) THEN "NOT_FOUND"
    ELSE IF RowOf(h).force_online /\ t = None THEN "TOKEN_REQUIRED"
    ELSE IF RowOf(h).force_online /\ ~TokenValid(t) THEN "INVALID_TOKEN"
    ELSE IF RowOf(h).machine_id # m THEN "MACHINE_MISMATCH"
    ELSE IF ~RowOf(h).is_active THEN "REVOKED"
    ELSE IF ~NotExpired(RowOf(h)) THEN "EXPIRED"
    ELSE "VALID"

-----------------------------------------------------------------------------
\* C1: every validation returns the verdict of the first failing check in the
\* order Blacklisted, NotFound, TokenRequired/TokenInvalid (force-online
\* serials only), MachineMismatch, Revoked, Expired, and Valid only when no
\* check fails.
C1_FirstFailingCheck ==
    [][ValidateStep =>
         /\ resp'.code = FirstFailing(LastLog'.serial_hash, LastLog'.machine_id,
                                      LastLog'.validation_token)
         /\ resp'.ok <=> resp'.code = "VALID"]_vars

\* a validation got past every earlier check and was denied by the last one
C1_Witness == resp.code = "EXPIRED" /\ Len(validation_logs) > 0

\* C2: a machine with an active blacklist entry is always answered
\* Blacklisted, with the stored reason, whatever serial and token it presents.
C2_BlacklistFirst ==
    [][ValidateStep /\ Banned(LastLog'.machine_id) =>
         /\ resp'.code = "BLACKLISTED"
         /\ resp'.reason = BanReason(LastLog'.machine_id)
         /\ ~resp'.ok]_vars

\* a banned machine was answered Blacklisted for a serial that is registered to
\* it and active (registered or restored after the ban), under the second reason
C2_Witness ==
    /\ resp.code = "BLACKLISTED" /\ resp.reason = "abuse"
    /\ Len(validation_logs) > 0
    /\ \E r \in serials : /\ r.serial_hash = LastLog.serial_hash
                          /\ r.machine_id = LastLog.machine_id /\ r.is_active

\* C3, as claimed: a registered, active, unexpired serial validated from its
\* registered machine is answered Valid.
C3_Original ==
    [][ValidateStep /\ Registered(LastLog'.serial_hash) =>
         LET r == RowOf(LastLog'.serial_hash)
         IN (r.machine_id = LastLog'.machine_id /\ r.is_active /\ NotExpired(r))
                => resp'.code = "VALID"]_vars

\* C3, amended: ... provided the machine is not blacklisted and, when the
\* serial is force-online, a currently valid token is presented.
C3_ValidWhenEntitled ==
    [][ValidateStep /\ Registered(LastLog'.serial_hash) =>
         LET r == RowOf(LastLog'.serial_hash)
         IN (/\ r.machine_id = LastLog'.machine_id /\ r.is_active /\ NotExpired(r)
             /\ ~Banned(LastLog'.machine_id)
             /\ GateOpen(r, LastLog'.validation_token))
                => resp'.code = "VALID" /\ resp'.ok]_vars

\* a force-online serial was answered Valid on the last tick of its validity
C3_Witness ==
    /\ resp.code = "VALID" /\ Len(validation_logs) > 0
    /\ \E r \in serials : /\ r.serial_hash = LastLog.serial_hash
                          /\ r.force_online /\ r.expiry_date.t = now

\* C4, as claimed: a force-online serial is answered Valid only with a valid
\* token, TokenRequired with no token and TokenInvalid with an unknown or
\* expired one.
C4_Original ==
    [][ValidateStep /\ Registered(LastLog'.serial_hash)
          /\ RowOf(LastLog'.serial_hash).force_online =>
         LET t == LastLog'.validation_token
         IN /\ resp'.code = "VALID" => TokenValid(t)
            /\ t = None => resp'.code = "TOKEN_REQUIRED"
            /\ (t # None /\ ~TokenValid(t)) => resp'.code = "INVALID_TOKEN"]_vars

\* C4, amended: ... TokenRequired / TokenInvalid when the machine is not
\* blacklisted (a blacklisted machine is answered Blacklisted first).
C4_OnlineGate ==
    [][ValidateStep /\ Registered(LastLog'.serial_hash)
          /\ RowOf(LastLog'.serial_hash).force_online =>
         LET t == LastLog'.validation_token
             free == ~Banned(LastLog'.machine_id)
         IN /\ resp'.code = "VALID" => TokenValid(t)
            /\ (free /\ t = None) => resp'.code = "TOKEN_REQUIRED"
            /\ (free /\ t # None /\ ~TokenValid(t)) => resp'.code = "INVALID_TOKEN"]_vars

\* a force-online serial was refused for a token that was issued and has expired
C4_Witness ==
    /\ resp.code = "INVALID_TOKEN" /\ Len(validation_logs) > 0
    /\ \E r \in auth_tokens : r.token_hash = [sha256 |-> LastLog.validation_token]

\* the stored count of every serial
CheckCounts(tbl) == {<<r.serial_hash, r.check_count>> : r \in tbl}

\* C5: a Valid verdict raises the stored check_count by exactly 1 and returns
\* the new value; a denial leaves every check_count as it was.
C5_CheckCountStep ==
    [][ValidateStep =>
         IF resp'.code = "VALID"
         THEN \E r \in serials :
                /\ r.serial_hash = LastLog'.serial_hash
                /\ resp'.check_count = r.check_count + 1
                /\ CheckCounts(serials') =
                     (CheckCounts(serials) \ {<<r.serial_hash, r.check_count>>})
                         \cup {<<r.serial_hash, r.check_count + 1>>}
         ELSE CheckCounts(serials') = CheckCounts(serials)]_vars

\* a validation was answered Valid and the stored count is the returned one
C5_Witness ==
    /\ resp.code = "VALID" /\ resp.check_count = 1
    /\ \E r \in serials : r.check_count = 1

-----------------------------------------------------------------------------
\* a serial record as the blacklist cascade leaves it
Cascaded(r) ==
    ~r.is_active /\ r.revoked_reason \in {auto_reason(x) : x \in BlacklistReasons}

\* lifting the ban of m touches no serial and, in the blacklist, only the
\* activity flag of the entry of m
RemoveFrame(m) ==
    /\ serials' = serials
    /\ {b \in blacklist' : b.machine_id # m} = {b \in blacklist : b.machine_id # m}
    /\ {[machine_id |-> b.machine_id, reason |-> b.reason] : b \in blacklist'}
         = {[machine_id |-> b.machine_id, reason |-> b.reason] : b \in blacklist}
    /\ ~Banned(m)'

\* a validation of a cascaded serial from its own machine, the ban being lifted
CascadedValidated ==
    /\ ValidateStep
    /\ Registered(LastLog'.serial_hash)
    /\ Cascaded(RowOf(LastLog'.serial_hash))
    /\ RowOf(LastLog'.serial_hash).machine_id = LastLog'.machine_id
    /\ ~Banned(LastLog'.machine_id)

\* C10, as claimed: RemoveFromBlacklist(m) deactivates only the entry of m and
\* changes no serial, and a serial the cascade deactivated is answered Revoked
\* on m after the removal.
C10_Original ==
    [][/\ \A m \in MachineIds : remove_blacklist(AdminKey, m) => RemoveFrame(m)
       /\ CascadedValidated => resp'.code = "REVOKED"]_vars

\* C10, amended: ... is answered Revoked when it passes the online-mode check,
\* TokenRequired or TokenInvalid when it is force-online and presents no valid
\* token, and in no case Valid.
C10_RemoveKeepsCascade ==
    [][/\ \A m \in MachineIds : remove_blacklist(AdminKey, m) => RemoveFrame(m)
       /\ CascadedValidated =>
            LET r == RowOf(LastLog'.serial_hash)
                t == LastLog'.validation_token
            IN /\ GateOpen(r, t) => resp'.code = "REVOKED"
               /\ ~GateOpen(r, t) =>
                     resp'.code = IF t = None THEN "TOKEN_REQUIRED"
                                  ELSE "INVALID_TOKEN"
               /\ ~resp'.ok /\ serials' = serials]_vars

\* a serial the cascade deactivated was answered Revoked after the ban was lifted
C10_Witness ==
    /\ resp.code = "REVOKED" /\ Len(validation_logs) > 0
    /\ \E r \in serials : r.serial_hash = LastLog.serial_hash /\ Cascaded(r)
    /\ \E b \in blacklist : b.machine_id = LastLog.machine_id /\ ~b.is_active

-----------------------------------------------------------------------------
\* SpecBan: the lifecycle handlers alone, with no validation traffic.  One
\* serial key is registered on either machine, the other on the first.
NextBan ==
    \/ \E m \in MachineIds : register_serial(AdminKey, "S1", m, "pro", 1)
    \/ register_serial(AdminKey, "S2", "M1", "pro", 1)
    \/ \E s \in SerialKeys : revoke_serial(AdminKey, s, "policy")
    \/ \E s \in SerialKeys : restore_serial(AdminKey, s)
    \/ \E m \in MachineIds, r \in BlacklistReasons, fail_at \in 0..2 :
          add_blacklist(AdminKey, m, r, fail_at)
    \/ \E m \in MachineIds : remove_blacklist(AdminKey, m)
    \/ Tick

\* no validation is made, so the client identity is immaterial
InitBan == Init /\ client = Client("S1", "M1", None)

SpecBan == InitBan /\ [][NextBan]_vars

\* the committed effect of AddToBlacklist(m, reason) at time now
BanApplied(m, reason) ==
    /\ \E b \in blacklist' : b.machine_id = m /\ b.is_active /\ b.reason = reason
    /\ {b \in blacklist' : b.machine_id # m} = {b \in blacklist : b.machine_id # m}
    /\ Cardinality({b \in blacklist' : b.machine_id = m}) = 1
    /\ serials' =
         {IF r.machine_id = m /\ r.is_active
          THEN [r EXCEPT !.is_active = FALSE,
                         !.revoked_reason = auto_reason(reason),
                         !.revoked_date = [kind |-> r.created_date.kind, t |-> now]]
          ELSE r : r \in serials}

\* C9: AddToBlacklist(m, reason) applies both or neither of: an active entry
\* for m, and the deactivation of every serial of m active at call time with
\* a revoked_reason derived from the reason; serials of other machines and
\* serials of m already inactive keep every field.
C9_CascadeAtomic ==
    [][\A m \in MachineIds, reason \in BlacklistReasons, fail_at \in 0..2 :
          add_blacklist(AdminKey, m, reason, fail_at) =>
             \/ BanApplied(m, reason)
             \/ blacklist' = blacklist /\ serials' = serials]_vars

\* a ban was committed: one serial of the machine carries the derived reason
\* and another, revoked earlier, keeps its own
C9_Witness ==
    /\ Banned("M1")
    /\ \E r \in serials : r.machine_id = "M1" /\ Cascaded(r)
    /\ \E r \in serials : /\ r.machine_id = "M1" /\ ~r.is_active
                          /\ r.revoked_reason = "policy"

-----------------------------------------------------------------------------
(* validate_serial_enhanced under Flask's threaded server: every request   *)
(* runs on its own connection, no statement takes a lock and nothing is    *)
(* held between the SELECTs and the UPDATE, so the statements of two       *)
(* requests, and the transactions of the administrative handlers,          *)
(* interleave.  A thread serves the request of client.                     *)

\* the thread returns: its writes are committed and its answer is sent
Return(t, out) ==
    /\ serials' = out.serials
    /\ validation_logs' = out.validation_logs
    /\ auth_tokens' = out.auth_tokens
    /\ active_tokens' = out.active_tokens
    /\ resp' = out.resp
    /\ req' = [req EXCEPT ![t] = [@ EXCEPT !.pc = "done", !.resp = out.resp]]

\* SELECT reason FROM blacklist ...; a hit is answered at once
read_blacklist(t) ==
    /\ req[t].pc = "idle"
    /\ LET blacklist_result == select_blacklist(blacklist, client.machine_id)
       IN IF blacklist_result # {}
          THEN Return(t, finish_validation(blacklist_result, {}, serials,
                            validation_logs, auth_tokens, active_tokens,
                            client.serial_key, client.machine_id, client.token, now))
          ELSE /\ req' = [req EXCEPT ![t] = [@ EXCEPT !.pc = "blacklist_read"]]
               /\ UNCHANGED <<serials, validation_logs, auth_tokens,
                              active_tokens, resp>>
    /\ UNCHANGED <<use_postgresql, blacklist, now, client>>

\* SELECT ... FROM serials WHERE serial_hash = ?; a miss is answered at once
read_serial(t) ==
    /\ req[t].pc = "blacklist_read"
    /\ LET result == select_serial(serials, hash_serial(client.serial_key))
       IN IF result = {}
          THEN Return(t, finish_validation({}, {}, serials, validation_logs,
                            auth_tokens, active_tokens, client.serial_key,
                            client.machine_id, client.token, now))
          ELSE /\ req' = [req EXCEPT ![t] = [@ EXCEPT !.pc = "serial_read",
                                                      !.result = result]]
               /\ UNCHANGED <<serials, validation_logs, auth_tokens,
                              active_tokens, resp>>
    /\ UNCHANGED <<use_postgresql, blacklist, now, client>>

\* the checks on the row that was read, the UPDATE, the log row, the commit
decide_and_update(t) ==
    /\ req[t].pc = "serial_read"
    /\ Return(t, finish_validation({}, req[t].result, serials, validation_logs,
                     auth_tokens, active_tokens, client.serial_key,
                     client.machine_id, client.token, now))
    /\ UNCHANGED <<use_postgresql, blacklist, now, client>>

\* SpecConc: two requests for one serial, registered beforehand to the
\* machine that presents it, race each other and the administrative handlers.
InitConc ==
    /\ use_postgresql \in BOOLEAN
    /\ serials = register_serial_enhanced({}, "S1", "M1", "pro", 1, FALSE, 0)
    /\ blacklist = {}
    /\ auth_tokens = {}
    /\ validation_logs = <<>>
    /\ active_tokens = <<>>
    /\ now = 0
    /\ resp = NoResp
    /\ req = [t \in Threads |-> Idle]
    /\ client = Client("S1", "M1", None)

NextConc ==
    \/ \E t \in Threads : read_blacklist(t)
    \/ \E t \in Threads : read_serial(t)
    \/ \E t \in Threads : decide_and_update(t)
    \/ revoke_serial(AdminKey, "S1", "policy")
    \/ restore_serial(AdminKey, "S1")
    \/ add_blacklist(AdminKey, "M1", "fraud", 0)
    \/ remove_blacklist(AdminKey, "M1")
    \/ Tick

SpecConc == InitConc /\ [][NextConc]_vars

\* the requests that have been answered Valid
Validated == {t \in Threads : req[t].pc = "done" /\ req[t].resp.ok}

\* thread t is answered in this step
Answered(t) == req[t].pc # "done" /\ req'[t].pc = "done"

\* C6: overlapping validations of one serial count as if each ran alone: after
\* k of them were answered Valid the stored check_count has grown by k, and
\* the k returned values are distinct.
C6_NoLostUpdate ==
    /\ \A r \in serials : r.check_count = Cardinality(Validated)
    /\ \A t, u \in Validated :
          t # u => req[t].resp.check_count # req[u].resp.check_count

\* two requests were answered Valid with the same count, and one is stored
C6_Witness ==
    /\ Validated = Threads
    /\ \A t \in Threads : req[t].resp.check_count = 1
    /\ \A r \in serials : r.check_count = 1

\* C7: once the ban of machine m is committed, no validation from m is
\* answered Valid and none increments a check_count, however its reads
\* interleaved with the ban.
C7_NoValidAfterBan ==
    [][\A t \in Threads :
          Answered(t) /\ Banned(client.machine_id) =>
             ~req'[t].resp.ok /\ CheckCounts(serials') = CheckCounts(serials)]_vars

\* the race window: the ban is committed while a request that read the
\* blacklist and an active serial before it has yet to decide
C7_Witness ==
    /\ Banned(client.machine_id)
    /\ \E t \in Threads : /\ req[t].pc = "serial_read"
                          /\ \E r \in req[t].result : r.is_active

\* the store holds the committed revocation of the serial
RevokedNow(serial_key) ==
    \E r \in serials : /\ r.serial_key = serial_key /\ ~r.is_active
                       /\ r.revoked_reason \in RevokeReasons

\* C8: once Revoke(s) has committed is_active = false, no validation of s
\* is answered Valid and none commits a check_count update.
C8_NoValidAfterRevoke ==
    [][\A t \in Threads :
          Answered(t) /\ RevokedNow(client.serial_key) =>
             ~req'[t].resp.ok /\ CheckCounts(serials') = CheckCounts(serials)]_vars

\* the race window: the revocation is committed while a request that read
\* the serial as active has yet to decide
C8_Witness ==
    /\ RevokedNow(client.serial_key)
    /\ \E t \in Threads : /\ req[t].pc = "serial_read"
                          /\ \E r \in req[t].result : r.is_active

-----------------------------------------------------------------------------
\* SpecRereg: one serial key is registered and registered again, on either
\* machine, with either tier and validity, between revocations, restorations,
\* a ban of the first machine and validations without a token.
InitRereg == Init /\ client \in {Client("S1", m, None) : m \in MachineIds}

NextRereg ==
    \/ /\ Len(validation_logs) < MaxLog
       /\ validate_serial(client.serial_key, client.machine_id)
    \/ \E m \in MachineIds, tier \in Tiers, d \in DaysSet :
          register_serial(AdminKey, "S1", m, tier, d)
    \/ revoke_serial(AdminKey, "S1", "policy")
    \/ restore_serial(AdminKey, "S1")
    \/ add_blacklist(AdminKey, "M1", "fraud", 0)
    \/ remove_blacklist(AdminKey, "M1")
    \/ Tick

SpecRereg == InitRereg /\ [][NextRereg]_vars

\* the record of a serial key before and after a step
Before(serial_key) == {r \in serials : r.serial_key = serial_key}

After(serial_key) == {r \in serials' : r.serial_key = serial_key}

\* the revocation of record r is undone in record r2
RevocationCleared(r, r2) ==
    /\ ~r.is_active
    /\ r2.is_active \/ r2.revoked_date = SqlNull \/ r2.revoked_reason = None

\* C11: a serial goes from active to inactive only by Revoke or the blacklist
\* cascade, and its is_active, revoked_date and revoked_reason are cleared only
\* by Restore: not by re-Register, RemoveFromBlacklist or Validate.
C11_RevocationSticky ==
    [][\A k \in SerialKeys : \A r \in Before(k), r2 \in After(k) :
          /\ RevocationCleared(r, r2) => restore_serial(AdminKey, k)
          /\ (r.is_active /\ ~r2.is_active) =>
                \/ \E reason \in RevokeReasons : revoke_serial(AdminKey, k, reason)
                \/ \E reason \in BlacklistReasons :
                      add_blacklist(AdminKey, r.machine_id, reason, 0)]_vars

\* a revoked serial in a store whose registration replaces the whole record
C11_Witness ==
    /\ ~use_postgresql
    /\ \E r \in serials : ~r.is_active /\ r.revoked_reason = "policy"

\* C15: check_count changes only by a successful validation: no step lowers
\* or resets it, re-registration of the same serial_key included.
C15_CountMonotonic ==
    [][\A k \in SerialKeys : \A r \in Before(k), r2 \in After(k) :
          /\ r2.check_count >= r.check_count
          /\ r2.check_count # r.check_count =>
                ValidateStep /\ resp'.ok /\ LastLog'.serial_hash = r.serial_hash]_vars

\* a counted serial in a store whose registration replaces the whole record
C15_Witness ==
    /\ ~use_postgresql
    /\ \E r \in serials : r.check_count > 0

\* the serial keys and hashes the store holds a record of
StoredKeys(tbl) == {r.serial_key : r \in tbl}

StoredHashes(tbl) == {r.serial_hash : r \in tbl}

\* C14: the store holds one record per registered serial_key, equivalently
\* per serial_hash: a registration of a new key adds one record, a
\* re-registration adds none, and no record is ever dropped.
C14_OneRecordPerKey ==
    [][/\ Cardinality(serials') = Cardinality(StoredKeys(serials'))
       /\ Cardinality(serials') = Cardinality(StoredHashes(serials'))
       /\ StoredKeys(serials) \subseteq StoredKeys(serials')
       /\ \A k \in SerialKeys, m \in MachineIds :
             register_serial(AdminKey, k, m, "pro", 1) =>
                StoredKeys(serials') = StoredKeys(serials) \cup {k}]_vars

\* both keys are registered, one of them again on the other machine at a later
\* time, and the store holds two records
C14_Witness ==
    /\ StoredKeys(serials) = SerialKeys /\ Cardinality(serials) = 2
    /\ \E r \in serials : r.machine_id = "M2" /\ r.created_date.t > 0

-----------------------------------------------------------------------------
\* SpecMismatch: as Spec, but the serial is registered on the second machine,
\* so that the first machine, which is the one banned, presents a serial that
\* is bound elsewhere.
NextMismatch ==
    \/ /\ Len(validation_logs) < MaxLog
       /\ validate_serial(client.serial_key, client.machine_id)
    \/ /\ Len(validation_logs) < MaxLog
       /\ \E f \in {FALSE, client.token # None} :
             api_validate_enhanced(client.serial_key, client.machine_id,
                                   client.token, f)
    \/ \E d \in DaysSet : register_serial(AdminKey, "S1", "M2", "pro", d)
    \/ \E d \in DaysSet : get_auth_token(AdminKey, None, TRUE, "S1", "M2", "pro", d)
    \/ revoke_serial(AdminKey, "S1", "policy")
    \/ restore_serial(AdminKey, "S1")
    \/ add_blacklist(AdminKey, "M1", "fraud", 0)
    \/ remove_blacklist(AdminKey, "M1")
    \/ Tick

SpecMismatch == Init /\ [][NextMismatch]_vars

\* a validation of a stored serial from a machine other than the stored one
MismatchValidated ==
    /\ ValidateStep
    /\ Registered(LastLog'.serial_hash)
    /\ RowOf(LastLog'.serial_hash).machine_id # LastLog'.machine_id

\* C12, as claimed: a stored serial presented by another machine than the
\* stored one is always answered MachineMismatch, never NotFound.
C12_Original ==
    [][MismatchValidated => resp'.code = "MACHINE_MISMATCH"]_vars

\* C12, amended: ... is never answered NotFound or Valid; it is answered
\* MachineMismatch unless the presenting machine is blacklisted or the serial
\* is force-online and no valid token is presented.
C12_MismatchNotMissing ==
    [][MismatchValidated =>
         LET r == RowOf(LastLog'.serial_hash)
             m == LastLog'.machine_id
             t == LastLog'.validation_token
         IN /\ resp'.code \notin {"NOT_FOUND", "VALID"}
            /\ (~Banned(m) /\ GateOpen(r, t)) => resp'.code = "MACHINE_MISMATCH"
            /\ resp'.code = "MACHINE_MISMATCH" => ~Banned(m) /\ GateOpen(r, t)]_vars

\* a revoked force-online serial, presented elsewhere with a valid token, was
\* answered MachineMismatch
C12_Witness ==
    /\ resp.code = "MACHINE_MISMATCH" /\ Len(validation_logs) > 0
    /\ \E r \in serials : /\ r.serial_hash = LastLog.serial_hash
                          /\ r.force_online /\ ~r.is_active
                          /\ r.machine_id # LastLog.machine_id

\* what a registration of (machine, tier, days) at time now leaves stored
Registration(r, m, tier, d) ==
    /\ r.machine_id = m /\ r.tier = tier
    /\ r.expiry_date.t = now + d * TicksPerDay

\* a re-registration overwrites machine, tier and expiry, and nothing else does
LatestRegistrationStored ==
    /\ \A m \in MachineIds, tier \in Tiers, d \in DaysSet :
          register_serial(AdminKey, "S1", m, tier, d) =>
             /\ After("S1") # {}
             /\ \A r2 \in After("S1") : Registration(r2, m, tier, d)
    /\ \A r \in Before("S1"), r2 \in After("S1") :
          (r.machine_id # r2.machine_id \/ r.tier # r2.tier
              \/ r.expiry_date.t # r2.expiry_date.t) =>
             \E m \in MachineIds, tier \in Tiers, d \in DaysSet :
                register_serial(AdminKey, "S1", m, tier, d)

\* SpecLatest: registration and re-registration of one key, on either
\* machine, with either tier and validity, of a serial that may have been
\* revoked and of a machine that may have been banned in between.
NextLatest ==
    \/ /\ Len(validation_logs) < MaxLog
       /\ validate_serial(client.serial_key, client.machine_id)
    \/ \E m \in MachineIds, tier \in Tiers, d \in DaysSet :
          register_serial(AdminKey, "S1", m, tier, d)
    \/ revoke_serial(AdminKey, "S1", "policy")
    \/ add_blacklist(AdminKey, "M1", "fraud", 0)
    \/ Tick

SpecLatest == InitRereg /\ [][NextLatest]_vars

\* the answer a validation of S1 from machine m, made in this state, gets
Answer(m) == validate_serial_enhanced("S1", m, None).resp

-----------------------------------------------------------------------------
\* the client's request reaches the engine through one of the two routes
EngineCalled ==
    \/ validate_serial(client.serial_key, client.machine_id)
    \/ \E f \in {FALSE, client.token # None} :
          api_validate_enhanced(client.serial_key, client.machine_id,
                                client.token, f)

\* the log after the step is the log before it, followed by n new entries
Appended(n) ==
    /\ Len(validation_logs') = Len(validation_logs) + n
    /\ SubSeq(validation_logs', 1, Len(validation_logs)) = validation_logs

-----------------------------------------------------------------------------
(* SpecRoute: the validation routes with the requests they turn away        *)
(* themselves: a body without serial_key or without machine_id, and a      *)
(* request whose force_online flag is set (its default) without a token.   *)

RouteClients ==
    {Client("S1", m, t) : m \in MachineIds, t \in PresentedTokens}
        \cup {Client(None, "M1", None), Client("S1", None, None)}

InitRoute ==
    /\ use_postgresql \in BOOLEAN
    /\ serials = {}
    /\ blacklist = {}
    /\ auth_tokens = {}
    /\ validation_logs = <<>>
    /\ active_tokens = <<>>
    /\ now = 0
    /\ resp = NoResp
    /\ req = [t \in Threads |-> Idle]
    /\ client \in RouteClients

NextRoute ==
    \/ /\ Len(validation_logs) < MaxLog
       /\ validate_serial(client.serial_key, client.machine_id)
    \/ /\ Len(validation_logs) < MaxLog
       /\ \E f \in BOOLEAN :
             api_validate_enhanced(client.serial_key, client.machine_id,
                                   client.token, f)
    \/ register_serial(AdminKey, "S1", "M1", "pro", 1)
    \/ get_auth_token(AdminKey, None, TRUE, "S1", "M1", "pro", 1)
    \/ revoke_serial(AdminKey, "S1", "policy")
    \/ restore_serial(AdminKey, "S1")
    \/ add_blacklist(AdminKey, "M1", "fraud", 0)
    \/ remove_blacklist(AdminKey, "M1")
    \/ Tick

SpecRoute == InitRoute /\ [][NextRoute]_vars

\* the client's request is served by one of the two validation routes
ValidationRequest ==
    \/ validate_serial(client.serial_key, client.machine_id)
    \/ \E f \in BOOLEAN :
          api_validate_enhanced(client.serial_key, client.machine_id,
                                client.token, f)

\* C17: every validation request answered with a denial, the requests
\* without serial_key or machine_id and the force-online requests without
\* a token included, adds an entry to the validation log.
C17_DenialLogged ==
    [][ValidationRequest /\ ~resp'.ok => Appended(1)]_vars

\* a request was turned away by the route and the log is still empty
C17_Witness ==
    /\ resp.http \in {400, 401}
    /\ resp.code \in {"INVALID_INPUT", "TOKEN_MISSING"}
    /\ validation_logs = <<>>

-----------------------------------------------------------------------------
(* SpecLog: every operation of the server over a log that already holds    *)
(* entries: the validation routes, registration and re-registration,       *)
(* revocation and restoration, the blacklist, token issuance and the       *)
(* cleanup sweep.                                                          *)

\* the server has answered one request, POST /api/validate for an unknown
\* serial, and logged it
first_request == finish_validation({}, {}, {}, <<>>, {}, <<>>, "S1", "M1", None, 0)

InitLog ==
    /\ use_postgresql \in BOOLEAN
    /\ serials = {}
    /\ blacklist = {}
    /\ auth_tokens = {}
    /\ validation_logs = first_request.validation_logs
    /\ active_tokens = <<>>
    /\ now = 0
    /\ resp = first_request.resp
    /\ req = [t \in Threads |-> Idle]
    /\ client = Client("S1", "M1", "t1")

NextLog ==
    \/ /\ Len(validation_logs) <= MaxLog
       /\ validate_serial(client.serial_key, client.machine_id)
    \/ /\ Len(validation_logs) <= MaxLog
       /\ \E f \in BOOLEAN :
             api_validate_enhanced(client.serial_key, client.machine_id,
                                   client.token, f)
    \/ \E d \in DaysSet : register_serial(AdminKey, "S1", "M1", "pro", d)
    \/ get_auth_token(AdminKey, None, TRUE, "S1", "M1", "pro", 1)
    \/ revoke_serial(AdminKey, "S1", "policy")
    \/ restore_serial(AdminKey, "S1")
    \/ add_blacklist(AdminKey, "M1", "fraud", 0)
    \/ remove_blacklist(AdminKey, "M1")
    \/ cleanup_expired_tokens
    \/ Tick

SpecLog == InitLog /\ [][NextLog]_vars

\* C18: the validation log is append-only: every step, whatever the
\* operation, leaves the entries already written in place and unchanged,
\* and only a validation adds one.
C18_AppendOnly ==
    [][/\ Len(validation_logs') >= Len(validation_logs)
       /\ SubSeq(validation_logs', 1, Len(validation_logs)) = validation_logs
       /\ ~EngineCalled => validation_logs' = validation_logs]_vars

\* a second entry was appended behind a different first one, a token was
\* issued, verified and has left the cache since
C18_Witness ==
    /\ Len(validation_logs) = 2
    /\ validation_logs[1].result = "NOT_FOUND"
    /\ validation_logs[2].result = "VALID"
    /\ auth_tokens # {} /\ active_tokens = <<>>

-----------------------------------------------------------------------------
(* SpecDeny: validations of a serial, plain or force-online, from either   *)
(* machine, with or without a token, in a server that is restarted: after  *)
(* a restart the cache is empty and a token is verified against the store. *)

InitDeny == Init /\ client.serial_key = "S1"

NextDeny ==
    \/ /\ Len(validation_logs) < MaxLog
       /\ validate_serial(client.serial_key, client.machine_id)
    \/ /\ Len(validation_logs) < MaxLog
       /\ \E f \in {FALSE, client.token # None} :
             api_validate_enhanced(client.serial_key, client.machine_id,
                                   client.token, f)
    \/ register_serial(AdminKey, "S1", "M1", "pro", 1)
    \/ \E d \in DaysSet : get_auth_token(AdminKey, None, TRUE, "S1", "M1", "pro", d)
    \/ revoke_serial(AdminKey, "S1", "policy")
    \/ add_blacklist(AdminKey, "M1", "fraud", 0)
    \/ Restart
    \/ Tick

SpecDeny == InitDeny /\ [][NextDeny]_vars

\* the token authority's table with one more use counted for token t
Counted(t) ==
    {IF r.token_hash = [sha256 |-> t] THEN [r EXCEPT !.usage_count = @ + 1]
     ELSE r : r \in auth_tokens}

\* the cache holds an unexpired entry of the token
CacheHit(t) == t \in DOMAIN active_tokens /\ now < active_tokens[t].expires_at

\* the client's request gets as far as the online-mode check with a token t
\* that the cache does not vouch for and the store does
StoreVerified(t) ==
    /\ ~Banned(client.machine_id)
    /\ Registered(hash_serial(client.serial_key))
    /\ RowOf(hash_serial(client.serial_key)).force_online
    /\ t # None /\ ~CacheHit(t)
    /\ \E r \in auth_tokens :
          r.token_hash = [sha256 |-> t] /\ r.is_active
              /\ now < r.expires_at.t

\* r2 is r but for the three columns a Valid answer writes
CheckedOnly(r, r2) ==
    r2 = [r EXCEPT !.check_count = r2.check_count,
                   !.last_check_time = r2.last_check_time,
                   !.last_validation_token = r2.last_validation_token]

\* C19 as claimed: a Validate that returns a denial changes nothing in the
\* store except for the appended log entry: serial records, blacklist
\* entries and token records, usage_count included, are as before.
C19_Original ==
    [][EngineCalled /\ ~resp'.ok =>
          /\ serials' = serials
          /\ blacklist' = blacklist
          /\ auth_tokens' = auth_tokens]_vars

\* C19: a Validate that returns a denial leaves serial records and blacklist
\* entries as they were, and token records too except that a token verified
\* against the store, not the cache, has one more use counted; a Valid
\* answer changes, in the serial records, only check_count, last_check_time
\* and last_validation_token of the serial validated.
C19_DenialFrame ==
    [][EngineCalled =>
          /\ blacklist' = blacklist
          /\ Appended(1)
          /\ ~resp'.ok =>
                /\ serials' = serials
                /\ auth_tokens' =
                      IF StoreVerified(LastLog'.validation_token)
                      THEN Counted(LastLog'.validation_token)
                      ELSE auth_tokens
          /\ resp'.ok =>
                /\ \A r \in serials :
                      IF r.serial_key = client.serial_key
                      THEN \E r2 \in serials' : CheckedOnly(r, r2)
                      ELSE r \in serials'
                /\ Cardinality(serials') = Cardinality(serials)]_vars

\* a request was denied after its token had been verified against the store
C19_Witness ==
    /\ Len(validation_logs) = 1
    /\ resp.code \in {"MACHINE_MISMATCH", "REVOKED", "EXPIRED"}
    /\ LastLog.validation_token # None
    /\ \E r \in auth_tokens :
          r.token_hash = [sha256 |-> LastLog.validation_token]
              /\ r.usage_count = 1

-----------------------------------------------------------------------------
(* SpecToken: the Token Authority by itself.  Tokens are issued, verified  *)
(* (from the cache, or from the store after a restart), swept by the       *)
(* cleanup thread, and outlived: the clock runs a token's lifetime past    *)
(* the last instant of Spec.                                               *)

MaxUse == 2    \* verifications against the store counted on one token

TokenPool == {"t1", "t2"}     \* values secrets.token_urlsafe returns here

TokenHorizon == MaxTime + token_lifetime + 1

InitToken == Init /\ client \in {Client("S1", "M1", t) : t \in TokenPool}

\* db_manager.generate_validation_token()
IssueToken ==
    /\ now < TokenHorizon
    /\ \E token \in TokenPool :
          /\ \A r \in auth_tokens : r.token_hash # sha256(token)
          /\ LET g == generate_validation_token(token, auth_tokens,
                                                active_tokens, now)
             IN /\ auth_tokens' = g.auth_tokens
                /\ active_tokens' = g.active_tokens
    /\ UNCHANGED <<use_postgresql, serials, blacklist, validation_logs, now,
                   resp, req, client>>

\* db_manager.validate_token(token) for the client's token
VerifyToken ==
    /\ \A r \in auth_tokens : r.usage_count < MaxUse
    /\ LET v == validate_token(client.token, auth_tokens, active_tokens, now)
       IN /\ auth_tokens' = v.auth_tokens
          /\ active_tokens' = v.active_tokens
          /\ resp' = [NoResp EXCEPT !.op = "verify", !.ok = v.ok]
    /\ UNCHANGED <<use_postgresql, serials, blacklist, validation_logs, now,
                   req, client>>

\* the clock advances, past the expiry of every token issued
Elapse ==
    /\ now < TokenHorizon
    /\ now' = now + 1
    /\ UNCHANGED <<use_postgresql, serials, blacklist, auth_tokens,
                   validation_logs, active_tokens, resp, req, client>>

NextToken ==
    \/ IssueToken
    \/ VerifyToken
    \/ cleanup_expired_tokens
    \/ Restart
    \/ Elapse

SpecToken == InitToken /\ [][NextToken]_vars

\* the record the store keeps of token t
Issued(t) == {r \in auth_tokens : r.token_hash = [sha256 |-> t]}

\* C20: a token expires one TTL (24 hours) after it is issued, and whatever
\* verifications, issuances, cleanup sweeps and restarts came before, a
\* verification of an issued token answers true at every instant before
\* expires_at and false at every instant from expires_at on.
C20_ReusableUntilExpiry ==
    [][/\ \A r \in auth_tokens' :
             r.expires_at.t = r.created_at.t + TicksPerDay
       /\ \A r \in auth_tokens' :
             (\A q \in auth_tokens : q.token_hash # r.token_hash) =>
                 r.created_at.t = now /\ r.is_active
       /\ VerifyToken /\ Issued(client.token) # {} =>
             \A r \in Issued(client.token) :
                 resp'.ok <=> now < r.expires_at.t]_vars

\* the token verified true for the second time against the store, after two
\* restarts, while an older token has expired and been swept
C20_Witness ==
    /\ resp.op = "verify" /\ resp.ok
    /\ \E r \in Issued(client.token) : r.usage_count = 2
    /\ \E r \in auth_tokens : ~r.is_active

-----------------------------------------------------------------------------
\* the token records this step adds to the store
NewTokenRows == {r \in auth_tokens' : \A q \in auth_tokens : q.token_hash # r.token_hash}

\* C21: a token record is created, and a token handed to the caller, only by
\* the issuance call made with the admin key; a validation request never
\* creates or returns one.
C21_AdminOnlyIssuance ==
    [][/\ NewTokenRows # {} =>
             \E d \in DaysSet :
                get_auth_token(AdminKey, None, TRUE, "S1", "M1", "pro", d)
       /\ EngineCalled => resp'.new_token = None]_vars

\* a validation request, which carries no admin key, was answered with a
\* token that the store now holds
C21_Witness ==
    /\ resp.op = "validate" /\ resp.ok /\ resp.new_token # None
    /\ \E r \in auth_tokens : r.token_hash = sha256(resp.new_token)

-----------------------------------------------------------------------------
\* the raw token t is written in some durable record
StoredRaw(t) ==
    \/ \E r \in auth_tokens : r.token_hash = t
    \/ \E r \in serials : r.last_validation_token = t
    \/ \E i \in 1..Len(validation_logs) : validation_logs[i].validation_token = t

\* C22: the store holds only the digest of a token: no token record, serial
\* record or validation log entry contains the raw token a client presented
\* or was given.
C22_DigestOnly == \A t \in Tokens : ~StoredRaw(t)

\* an issued, unexpired token can be read in the serial record and in the log
C22_Witness ==
    \E t \in Tokens :
        /\ TokenValid(t)
        /\ \E r \in serials : r.last_validation_token = t
        /\ Len(validation_logs) > 0 /\ LastLog.validation_token = t

-----------------------------------------------------------------------------
(* SpecOutage: validations during which a call to the store raises: the    *)
(* engine's own connection, or the connection validate_token opens for     *)
(* itself once the cache has not vouched for the token.                    *)

FailedCalls == {"validate_serial_enhanced", "validate_token"}

\* validate_token whose store lookup raises: the except branch answers False
validate_token_failed(token, toks, cache, current_time) ==
    LET cached == token \in DOMAIN cache
    IN IF cached /\ current_time < cache[token].expires_at
       THEN [ok |-> TRUE, auth_tokens |-> toks, active_tokens |-> cache]
       ELSE [ok |-> FALSE, auth_tokens |-> toks,
             active_tokens |-> IF cached THEN CacheDel(cache, token) ELSE cache]

\* the answer of the engine's except branch
store_error == [NoResp EXCEPT !.op = "validate", !.code = "STORE_ERROR"]

\* the engine gets as far as verifying the token against the store
token_lookup_reached(serial_key, machine_id, validation_token) ==
    /\ select_blacklist(blacklist, machine_id) = {}
    /\ \E row \in select_serial(serials, hash_serial(serial_key)) :
          row.force_online \/ row.validation_required
    /\ validation_token # None
    /\ validate_token_failed(validation_token, auth_tokens, active_tokens, now).ok = FALSE

\* POST /api/validate/enhanced while the store call `failed` raises
validate_store_failure(serial_key, machine_id, validation_token, failed) ==
    IF failed = "validate_serial_enhanced"
    THEN /\ resp' = store_error
         /\ UNCHANGED <<use_postgresql, serials, blacklist, auth_tokens,
                        validation_logs, active_tokens, now, req, client>>
    ELSE /\ token_lookup_reached(serial_key, machine_id, validation_token)
         /\ LET v == validate_token_failed(validation_token, auth_tokens,
                                           active_tokens, now)
            IN /\ active_tokens' = v.active_tokens
               /\ validation_logs' =
                     _log_validation_enhanced(validation_logs,
                         hash_serial(serial_key), machine_id, now,
                         "INVALID_TOKEN", validation_token)
               /\ resp' = Denied("INVALID_TOKEN")
         /\ UNCHANGED <<use_postgresql, serials, blacklist, auth_tokens, now,
                        req, client>>

InitOutage == Init /\ client \in {Client("S1", "M1", t) : t \in PresentedTokens}

NextOutage ==
    \/ /\ Len(validation_logs) < MaxLog
       /\ api_validate_enhanced(client.serial_key, client.machine_id,
                                client.token, FALSE)
    \/ /\ Len(validation_logs) < MaxLog
       /\ \E failed \in FailedCalls :
             validate_store_failure(client.serial_key, client.machine_id,
                                    client.token, failed)
    \/ \E d \in DaysSet : register_serial(AdminKey, "S1", "M1", "pro", d)
    \/ \E d \in DaysSet : get_auth_token(AdminKey, None, TRUE, "S1", "M1", "pro", d)
    \/ revoke_serial(AdminKey, "S1", "policy")
    \/ add_blacklist(AdminKey, "M1", "fraud", 0)
    \/ Restart
    \/ Tick

SpecOutage == InitOutage /\ [][NextOutage]_vars

DenialCodes ==
    {"BLACKLISTED", "NOT_FOUND", "TOKEN_REQUIRED", "INVALID_TOKEN",
     "MACHINE_MISMATCH", "REVOKED", "EXPIRED"}

\* C23: a validation during which the store fails, the token lookup
\* included, is answered as a store failure: it is neither answered nor
\* logged with a denial verdict.
C23_FailureDistinct ==
    [][(\E failed \in FailedCalls :
           validate_store_failure(client.serial_key, client.machine_id,
                                  client.token, failed)) =>
          /\ resp'.code \notin DenialCodes
          /\ \/ validation_logs' = validation_logs
             \/ LastLog'.result \notin DenialCodes]_vars

\* a token the store holds unexpired was answered, and logged, as invalid
C23_Witness ==
    /\ resp.code = "INVALID_TOKEN"
    /\ Len(validation_logs) > 0 /\ LastLog.result = "INVALID_TOKEN"
    /\ \E r \in auth_tokens :
          /\ r.token_hash = [sha256 |-> LastLog.validation_token]
          /\ r.is_active /\ LastLog.validation_time.t < r.expires_at.t

-----------------------------------------------------------------------------
(* SpecAdmin: the administrative routes called with the admin key, with a  *)
(* wrong key and with none.                                                *)

PresentedKeys == AdminKeys \cup {None}

NextAdmin ==
    \/ \E k \in PresentedKeys, m \in MachineIds, d \in DaysSet :
          register_serial(k, "S1", m, "pro", d)
    \/ \E k \in PresentedKeys : revoke_serial(k, "S1", "policy")
    \/ \E k \in PresentedKeys : restore_serial(k, "S1")
    \/ \E k \in PresentedKeys, m \in MachineIds, r \in BlacklistReasons :
          add_blacklist(k, m, r, 0)
    \/ \E k \in PresentedKeys, m \in MachineIds : remove_blacklist(k, m)
    \/ Tick

SpecAdmin == InitBan /\ [][NextAdmin]_vars

\* an administrative request carrying key k is served in this step
AdminRequest(k) ==
    \/ \E s \in SerialKeys, m \in MachineIds, tier \in Tiers, d \in DaysSet :
          register_serial(k, s, m, tier, d)
    \/ \E s \in SerialKeys, reason \in RevokeReasons : revoke_serial(k, s, reason)
    \/ \E s \in SerialKeys : restore_serial(k, s)
    \/ \E m \in MachineIds, r \in BlacklistReasons : add_blacklist(k, m, r, 0)
    \/ \E m \in MachineIds : remove_blacklist(k, m)

\* C24: Register, Revoke, Restore, AddToBlacklist and RemoveFromBlacklist
\* take effect only with the admin key: a request with a wrong or missing
\* key is answered 403 and leaves serial, blacklist and token records as
\* they were, and every change to them is the effect of a request that
\* carried the key.
C24_AdminKeyRequired ==
    [][/\ \A k \in PresentedKeys \ {AdminKey} :
             /\ AdminRequest(k) => UNCHANGED <<serials, blacklist, auth_tokens>>
             /\ \A s \in SerialKeys : lifecycle_response(k, s).http = 403
             /\ add_blacklist_response(k, 0).http = 403
       /\ <<serials, blacklist, auth_tokens>>' # <<serials, blacklist, auth_tokens>>
             => AdminRequest(AdminKey)]_vars

\* a store every administrative request would change, were it let through:
\* an active serial on a machine that is banned, both put there with the key
C24_Witness ==
    /\ \E r \in serials : r.serial_key = "S1" /\ r.is_active /\ Banned(r.machine_id)
    /\ revoke_update(serials, hash_serial("S1"), "policy", now) # serials
    /\ lifecycle_response("wrong", "S1").http = 403
    /\ lifecycle_response(None, "S1").http = 403
    /\ lifecycle_response(AdminKey, "S1").success

-----------------------------------------------------------------------------
\* a Revoke or a Restore of serial_key is served in this step
LifecycleRequest(serial_key) ==
    \/ \E reason \in RevokeReasons : revoke_serial(AdminKey, serial_key, reason)
    \/ restore_serial(AdminKey, serial_key)

\* C25: Revoke and Restore of a serial_key that is not registered report
\* failure and leave the whole store as it was; neither ever creates a
\* serial record.
C25_UnknownSerialNoOp ==
    [][\A s \in SerialKeys :
          /\ LifecycleRequest(s) => StoredKeys(serials') = StoredKeys(serials)
          /\ ~Registered(hash_serial(s)) =>
                /\ LifecycleRequest(s) => UNCHANGED vars
                /\ ~lifecycle_response(AdminKey, s).success
                /\ \A reason \in RevokeReasons :
                      revoke_update(serials, hash_serial(s), reason, now) = serials
                /\ restore_update(serials, hash_serial(s)) = serials]_vars

\* one key is registered and has been revoked, the other is unknown and its
\* revocation is reported as failed
C25_Witness ==
    /\ Registered(hash_serial("S1")) /\ ~RowOf(hash_serial("S1")).is_active
    /\ RowOf(hash_serial("S1")).revoked_reason = "policy"
    /\ ~Registered(hash_serial("S2"))
    /\ lifecycle_response(AdminKey, "S1").success
    /\ ~lifecycle_response(AdminKey, "S2").success

-----------------------------------------------------------------------------
\* the verdict a validation of S1 from machine m with token t gets, were the
\* serial records tbl
VerdictIn(tbl, m, t) ==
    finish_validation(select_blacklist(blacklist, m),
                      select_serial(tbl, hash_serial("S1")), tbl,
                      validation_logs, auth_tokens, active_tokens,
                      "S1", m, t, now).resp.code

\* the serial records after Revoke(S1, reason) followed at once by Restore(S1)
RevokeRestore(reason) ==
    restore_update(revoke_update(serials, hash_serial("S1"), reason, now),
                   hash_serial("S1"))

\* machine_id, tier, expiry and check_count of every record are as before
BindingKept ==
    \A r \in serials : \E r2 \in serials' :
        /\ r2.serial_key = r.serial_key /\ r2.machine_id = r.machine_id
        /\ r2.tier = r.tier /\ r2.expiry_date = r.expiry_date
        /\ r2.check_count = r.check_count

\* Revoke and Restore write the columns they are meant to
LifecycleWrites ==
    /\ revoke_serial(AdminKey, "S1", "policy") =>
          /\ BindingKept
          /\ \A r2 \in After("S1") :
                /\ ~r2.is_active /\ r2.revoked_reason = "policy"
                /\ r2.revoked_date.t = now
    /\ restore_serial(AdminKey, "S1") =>
          /\ BindingKept
          /\ \A r2 \in After("S1") :
                /\ r2.is_active /\ r2.revoked_reason = None
                /\ r2.revoked_date = SqlNull

\* C26 as claimed: after Revoke a Validate from the registered machine
\* returns Revoked, and Revoke followed by Restore leaves every Validate
\* with the verdict it had before the Revoke.
C26_Original ==
    [][/\ LifecycleWrites
       /\ revoke_serial(AdminKey, "S1", "policy") =>
             \A r2 \in After("S1"), t \in PresentedTokens :
                VerdictIn(serials, r2.machine_id, t)' = "REVOKED"
       /\ \A m \in MachineIds, t \in PresentedTokens :
             VerdictIn(RevokeRestore("policy"), m, t) = VerdictIn(serials, m, t)]_vars

\* C26: Revoke sets is_active false with revoked_at / revoked_reason, after
\* which Validate from the registered machine returns Revoked unless an
\* earlier check denies it (Blacklisted; TokenRequired / TokenInvalid for a
\* force-online serial); Restore sets is_active true and clears both; Revoke
\* followed by Restore gives back exactly the records of before, and so every
\* verdict, when the serial was active before the Revoke, and otherwise
\* leaves it restored; machine_id, tier, expiry and check_count are
\* untouched by both.
C26_RevokeRestore ==
    [][/\ LifecycleWrites
       /\ revoke_serial(AdminKey, "S1", "policy") =>
             \A r2 \in After("S1"), t \in PresentedTokens :
                VerdictIn(serials, r2.machine_id, t)' =
                    IF Banned(r2.machine_id) THEN "BLACKLISTED"
                    ELSE IF r2.force_online /\ t = None THEN "TOKEN_REQUIRED"
                    ELSE IF r2.force_online /\ ~TokenValid(t) THEN "INVALID_TOKEN"
                    ELSE "REVOKED"
       /\ RevokeRestore("policy") =
             IF \A r \in Before("S1") : r.is_active THEN serials
             ELSE restore_update(serials, hash_serial("S1"))]_vars

\* the serial was validated, revoked and answered Revoked on its machine, its
\* binding and its count as they were
C26_Witness ==
    /\ resp.code = "REVOKED" /\ Len(validation_logs) > 0
    /\ \E r \in serials :
          /\ r.serial_hash = LastLog.serial_hash /\ r.machine_id = LastLog.machine_id
          /\ ~r.is_active /\ r.revoked_reason = "policy"
          /\ r.revoked_date.t <= LastLog.validation_time.t
          /\ RevokeRestore("policy") # serials

-----------------------------------------------------------------------------
\* C27: every serial record's expiry is its recorded creation time plus the
\* validity it was registered with: a registration for d days leaves
\* expiry_date = created_date + d days, and no other operation changes
\* either column.
C27_ExpiryFromCreation ==
    [][/\ \A m \in MachineIds, tier \in Tiers, d \in DaysSet :
             register_serial(AdminKey, "S1", m, tier, d) =>
                \A r2 \in After("S1") :
                    r2.expiry_date.t = r2.created_date.t + timedelta_days(d)
       /\ (\A m \in MachineIds, tier \in Tiers, d \in DaysSet :
              ~register_serial(AdminKey, "S1", m, tier, d)) =>
             \A r \in serials : \E r2 \in serials' :
                 /\ r2.serial_key = r.serial_key
                 /\ r2.expiry_date = r.expiry_date
                 /\ r2.created_date = r.created_date]_vars

\* a record whose expiry is its creation time plus no validity that can be
\* asked for: registered, then registered again later
C27_Witness ==
    /\ use_postgresql
    /\ \E r \in serials :
          \A d \in DaysSet : r.expiry_date.t # r.created_date.t + timedelta_days(d)

-----------------------------------------------------------------------------
\* the binding of a serial: the machine, the tier and the expiry it has
Binding(tbl) == {<<r.serial_key, r.machine_id, r.tier, r.expiry_date>> : r \in tbl}

\* a registration is served in this step
RegistrationStep ==
    \/ \E d \in DaysSet : register_serial(AdminKey, "S1", "M1", "pro", d)
    \/ \E d \in DaysSet : get_auth_token(AdminKey, None, TRUE, "S1", "M1", "pro", d)

\* C28: a serial is never re-bound by a validation, whatever its verdict, nor
\* by Revoke, Restore, AddToBlacklist or RemoveFromBlacklist: the stored
\* machine_id, tier and expiry change in a registration only.
C28_NeverRebinds ==
    [][/\ (\/ EngineCalled
           \/ revoke_serial(AdminKey, "S1", "policy")
           \/ restore_serial(AdminKey, "S1")
           \/ add_blacklist(AdminKey, "M1", "fraud", 0)
           \/ remove_blacklist(AdminKey, "M1")) =>
             Binding(serials') = Binding(serials)
       /\ Binding(serials') # Binding(serials) => RegistrationStep]_vars

\* the serial was presented from another machine, turned away, and is still
\* bound to its own, which has since been banned
C28_Witness ==
    /\ resp.code = "MACHINE_MISMATCH" /\ Len(validation_logs) > 0
    /\ LastLog.machine_id = "M2"
    /\ \E r \in serials :
          /\ r.serial_hash = LastLog.serial_hash /\ r.machine_id = "M1"
          /\ Cascaded(r)

-----------------------------------------------------------------------------
\* SpecBlocked: validations of a registered and of an unregistered key from
\* a machine that is banned and released, while S1 is registered, revoked and
\* ages.
InitBlocked == Init /\ client \in {Client(s, "M1", None) : s \in SerialKeys}

NextBlocked ==
    \/ /\ Len(validation_logs) < MaxLog
       /\ api_validate_enhanced(client.serial_key, client.machine_id,
                                client.token, FALSE)
    \/ \E m \in MachineIds, d \in DaysSet :
          register_serial(AdminKey, "S1", m, "pro", d)
    \/ revoke_serial(AdminKey, "S1", "policy")
    \/ \E r \in BlacklistReasons : add_blacklist(AdminKey, "M1", r, 0)
    \/ remove_blacklist(AdminKey, "M1")
    \/ Tick

SpecBlocked == InitBlocked /\ [][NextBlocked]_vars

\* serial tables a store could hold in place of its own: none, or one record
\* of S1 on either machine, plain or force-online, of any validity, active
\* or revoked
AltSerials ==
    LET rows == {NewSerialRow("S1", m, "pro", d, f, 0) :
                    m \in MachineIds, d \in DaysSet, f \in BOOLEAN}
    IN {{}} \cup {{r} : r \in rows}
            \cup {revoke_update({r}, hash_serial("S1"), "policy", 0) : r \in rows}

\* the whole answer a validation of s from machine m with token t gets, were
\* the serial records tbl
ResponseIn(tbl, s, m, t) ==
    finish_validation(select_blacklist(blacklist, m),
                      select_serial(tbl, hash_serial(s)), tbl,
                      validation_logs, auth_tokens, active_tokens,
                      s, m, t, now).resp

\* C29: the answer a blacklisted machine gets from Validate does not depend
\* on the serial records: whether the serial presented exists, is bound to
\* the machine, is revoked or is expired, the response is the same.
C29_BlacklistedLearnsNothing ==
    \A m \in MachineIds, s \in SerialKeys, t \in PresentedTokens :
        Banned(m) =>
            \A tbl \in AltSerials :
                ResponseIn(tbl, s, m, t) = ResponseIn(serials, s, m, t)

\* a banned machine presented a serial that is not registered and was
\* answered Blacklisted, as it is for a serial that is registered to it
C29_Witness ==
    /\ resp.code = "BLACKLISTED" /\ Len(validation_logs) > 0
    /\ Banned(LastLog.machine_id)
    /\ ~Registered(LastLog.serial_hash)
    /\ \E tbl \in AltSerials :
          /\ \E r \in tbl : r.machine_id = LastLog.machine_id /\ r.is_active
          /\ ResponseIn(tbl, "S1", LastLog.machine_id, None) = resp

-----------------------------------------------------------------------------
-----------------------------------------------------------------------------
\* C31: VerifyToken on a token that was never issued answers false, as it
\* does for an issued token at or after its expiry, and leaves the token
\* store and the in-memory cache as they were.
C31_UnknownTokenFalse ==
    [][VerifyToken =>
          /\ Issued(client.token) = {} =>
                /\ ~resp'.ok
                /\ auth_tokens' = auth_tokens
                /\ active_tokens' = active_tokens
          /\ (\E r \in Issued(client.token) : now >= r.expires_at.t) =>
                ~resp'.ok]_vars

\* a token the store never issued was verified while another one is on record
C31_Witness ==
    /\ resp.op = "verify" /\ ~resp.ok
    /\ Issued(client.token) = {}
    /\ auth_tokens # {} /\ DOMAIN active_tokens # {}

-----------------------------------------------------------------------------
\* C32: every VerifyToken call that answers true adds 1 to the usage_count of
\* the token's record and leaves the token in the cache, whether the cache
\* or the store answered.
C32_EveryUseCounted ==
    [][VerifyToken /\ resp'.ok =>
          /\ client.token \in DOMAIN active_tokens'
          /\ \A r \in Issued(client.token) :
                \E r2 \in auth_tokens' :
                    /\ r2.token_hash = r.token_hash
                    /\ r2.usage_count = r.usage_count + 1]_vars

\* a token verified true out of the cache, its record still counting no use
C32_Witness ==
    /\ resp.op = "verify" /\ resp.ok
    /\ client.token \in DOMAIN active_tokens
    /\ \E r \in Issued(client.token) : r.usage_count = 0

-----------------------------------------------------------------------------
\* C33: no step changes the expires_at a token's record was issued with or
\* removes the record, and after every step each cache entry belongs to a
\* record of the store and carries that record's expires_at.
C33_ExpiryFixed ==
    [][/\ \A r \in auth_tokens :
             \E r2 \in auth_tokens' :
                 /\ r2.token_hash = r.token_hash
                 /\ r2.expires_at = r.expires_at
                 /\ r2.created_at = r.created_at
       /\ \A r \in NewTokenRows : r.expires_at.t = now + token_lifetime
       /\ \A t \in DOMAIN active_tokens' :
             /\ Issued(t)' # {}
             /\ \A r \in Issued(t)' :
                   active_tokens'[t].expires_at = r.expires_at.t]_vars

\* after a restart a token was verified against the store: it is counted
\* and cached again, and has not expired
C33_Witness ==
    /\ resp.op = "verify" /\ resp.ok
    /\ client.token \in DOMAIN active_tokens
    /\ \E r \in Issued(client.token) :
          r.usage_count > 0 /\ now < r.expires_at.t

-----------------------------------------------------------------------------
\* the cache with only the entries of the tokens in keep
CacheKept(keep) == [k \in DOMAIN active_tokens \cap keep |-> active_tokens[k]]

\* C34: in every state reached by issuing, verifying, sweeping, restarting
\* and waiting, a verification of any token answers the same with the cache
\* as it is, with any part of it dropped, and with none of it.
C34_CacheAdvisory ==
    \A t \in TokenPool, keep \in SUBSET TokenPool :
        validate_token(t, auth_tokens, CacheKept(keep), now).ok
            = validate_token(t, auth_tokens, active_tokens, now).ok

\* after a verification the cache still holds a token that has expired and
\* has not been swept, next to a token that is current
C34_Witness ==
    /\ resp.op = "verify"
    /\ \E t \in DOMAIN active_tokens :
          /\ now >= active_tokens[t].expires_at
          /\ \E r \in Issued(t) : r.is_active
    /\ \E t \in DOMAIN active_tokens : now < active_tokens[t].expires_at

-----------------------------------------------------------------------------
\* C35: a request to the force-online endpoint with the force_online flag
\* set is answered Valid, or given a new token, only if the token it
\* presented is one the Token Authority verifies.
C35_FlaggedNeedsToken ==
    [][api_validate_enhanced(client.serial_key, client.machine_id,
                             client.token, TRUE)
           /\ (resp'.ok \/ resp'.new_token # None)
         => TokenValid(client.token)]_vars

\* a flagged request was answered Valid and handed, as its new token, the
\* very value it had presented: the store had never issued it
C35_Witness ==
    /\ resp.op = "validate" /\ resp.ok
    /\ client.token # None /\ resp.new_token = client.token
    /\ \E r \in serials : r.serial_hash = LastLog.serial_hash /\ ~r.force_online

-----------------------------------------------------------------------------
\* the fields of a serial record the two backends are compared on
Lifecycle(r) ==
    [serial_key |-> r.serial_key, is_active |-> r.is_active,
     revoked_date |-> r.revoked_date.t, revoked_reason |-> r.revoked_reason,
     check_count |-> r.check_count, machine_id |-> r.machine_id,
     expiry_date |-> r.expiry_date.t]

\* C36: from every state a sequence of Register, Revoke, Restore,
\* AddToBlacklist, RemoveFromBlacklist and Validate reaches, a registration
\* leaves each serial with the same is_active, revoked fields, check_count,
\* machine_id and expiry whether it runs as INSERT OR REPLACE or as ON
\* CONFLICT DO UPDATE, and the next validation gets the same verdict.
C36_BackendsAgree ==
    \A m \in MachineIds, tier \in Tiers, d \in DaysSet :
        LET new == NewSerialRow("S1", m, tier, d, FALSE, now)
            pg == pg_upsert_serial(serials, new)
            lite == sqlite_replace_serial(serials, new)
        IN /\ {Lifecycle(r) : r \in pg} = {Lifecycle(r) : r \in lite}
           /\ \A m2 \in MachineIds :
                 VerdictIn(pg, m2, None) = VerdictIn(lite, m2, None)

\* S1 is revoked after a validation was counted: registered again for a day
\* on its machine it stays Revoked under ON CONFLICT DO UPDATE and is Valid
\* under INSERT OR REPLACE
C36_Witness ==
    \E r \in serials :
        /\ r.serial_key = "S1" /\ ~r.is_active /\ r.check_count > 0
        /\ ~Banned(r.machine_id)
        /\ LET new == NewSerialRow("S1", r.machine_id, r.tier, 1, FALSE, now)
           IN /\ VerdictIn(pg_upsert_serial(serials, new), r.machine_id, None)
                    = "REVOKED"
              /\ VerdictIn(sqlite_replace_serial(serials, new), r.machine_id, None)
                    = "VALID"

-----------------------------------------------------------------------------
(* SpecShared: two force-online serials on two machines, each registered   *)
(* through /api/auth/token and handed a token of its own: S2 on M2 before  *)
(* the behaviour starts, S1 on M1 during it.  Either serial is validated   *)
(* from either machine with either token, or with none.                    *)

\* POST /api/auth/token {serial_key: S2, machine_id: M2, tier: pro, days: 1}
\* has been served at time 0 and returned the token "t0"
first_token == generate_validation_token("t0", {}, <<>>, 0)

InitShared ==
    /\ use_postgresql \in BOOLEAN
    /\ serials = register_serial_enhanced({}, "S2", "M2", "pro", 1, TRUE, 0)
    /\ blacklist = {}
    /\ auth_tokens = first_token.auth_tokens
    /\ validation_logs = <<>>
    /\ active_tokens = first_token.active_tokens
    /\ now = 0
    /\ resp = NoResp
    /\ req = [t \in Threads |-> Idle]
    /\ client \in {Client(s, m, t) : s \in SerialKeys, m \in MachineIds,
                                     t \in {"t0", "t1", None}}

NextShared ==
    \/ /\ Len(validation_logs) < MaxLog
       /\ api_validate_enhanced(client.serial_key, client.machine_id,
                                client.token, FALSE)
    \/ \E d \in DaysSet : get_auth_token(AdminKey, None, TRUE, "S1", "M1", "pro", d)
    \/ cleanup_expired_tokens
    \/ Restart
    \/ Tick

SpecShared == InitShared /\ [][NextShared]_vars

\* C37: the online-mode check of a force-online serial depends on the
\* validity of the token presented and on nothing else: whichever serial is
\* validated, from whichever machine, the request passes the check exactly
\* when the token is one the Token Authority holds unexpired, whatever
\* registration it was issued at.
C37_TokenUnbound ==
    [][api_validate_enhanced(client.serial_key, client.machine_id,
                             client.token, FALSE)
           /\ Registered(hash_serial(client.serial_key))
           /\ RowOf(hash_serial(client.serial_key)).force_online
         => (resp'.code \notin {"TOKEN_REQUIRED", "INVALID_TOKEN"}
                <=> TokenValid(client.token))]_vars

\* S2 on its machine M2 was answered Valid on the token issued when S1 was
\* registered on M1
C37_Witness ==
    /\ resp.op = "validate" /\ resp.ok /\ Len(validation_logs) > 0
    /\ LastLog.serial_hash = hash_serial("S2") /\ LastLog.machine_id = "M2"
    /\ LastLog.validation_token = "t1"
    /\ \E r \in serials : r.serial_key = "S1" /\ r.machine_id = "M1"

-----------------------------------------------------------------------------
(* SpecSweep: validate_token, cleanup_expired_tokens and                   *)
(* generate_validation_token run in three threads that share active_tokens *)
(* without a lock.  Each dictionary operation and each SQL statement is    *)
(* one step; a KeyError or a RuntimeError (dictionary changed size during  *)
(* iteration) takes the thread to its except branch.  req holds the three  *)
(* threads' positions and local variables.                                 *)

IdleSweep ==
    [vpc |-> "idle", vnow |-> NoTime, vexp |-> NoTime, vres |-> {},
     vissued |-> FALSE, vok |-> FALSE, verr |-> FALSE,
     cpc |-> "idle", cnow |-> NoTime, cseen |-> <<>>, cdel |-> {},
     ipc |-> "idle", itoken |-> None, iexp |-> NoTime]

\* validate_token returns ok; err: through its except branch
verify_return(ok, err) ==
    /\ req' = [req EXCEPT !.vpc = "done", !.vok = ok, !.verr = err]
    /\ resp' = [NoResp EXCEPT !.op = "verify", !.ok = ok]

\* current_time = datetime.now()
verify_begin ==
    /\ req.vpc \in {"idle", "done"}
    /\ req' = [req EXCEPT !.vpc = "contains", !.vnow = now, !.vexp = NoTime,
                          !.vres = {}, !.vok = FALSE, !.verr = FALSE,
                          !.vissued = (\E r \in auth_tokens :
                                          r.token_hash = sha256(client.token))]
    /\ UNCHANGED <<use_postgresql, serials, blacklist, auth_tokens,
                   validation_logs, active_tokens, now, resp, client>>

\* if token in self.active_tokens
verify_contains ==
    /\ req.vpc = "contains"
    /\ req' = [req EXCEPT !.vpc = IF client.token \in DOMAIN active_tokens
                                  THEN "get" ELSE "select"]
    /\ UNCHANGED <<use_postgresql, serials, blacklist, auth_tokens,
                   validation_logs, active_tokens, now, resp, client>>

\* token_info = self.active_tokens[token]
verify_get ==
    /\ req.vpc = "get"
    /\ IF client.token \in DOMAIN active_tokens
       THEN /\ req' = [req EXCEPT !.vpc = "compare",
                                  !.vexp = active_tokens[client.token].expires_at]
            /\ UNCHANGED resp
       ELSE verify_return(FALSE, TRUE)
    /\ UNCHANGED <<use_postgresql, serials, blacklist, auth_tokens,
                   validation_logs, active_tokens, now, client>>

\* if current_time < token_info['expires_at']: return True
\* else: del self.active_tokens[token]
verify_compare ==
    /\ req.vpc = "compare"
    /\ IF req.vnow < req.vexp
       THEN verify_return(TRUE, FALSE) /\ UNCHANGED active_tokens
       ELSE IF client.token \in DOMAIN active_tokens
       THEN /\ active_tokens' = CacheDel(active_tokens, client.token)
            /\ req' = [req EXCEPT !.vpc = "select"]
            /\ UNCHANGED resp
       ELSE verify_return(FALSE, TRUE) /\ UNCHANGED active_tokens
    /\ UNCHANGED <<use_postgresql, serials, blacklist, auth_tokens,
                   validation_logs, now, client>>

\* SELECT expires_at, is_active, token_type ... WHERE token_hash AND is_active
verify_select ==
    /\ req.vpc = "select"
    /\ req' = [req EXCEPT !.vpc = "decide",
                          !.vres = {r \in auth_tokens :
                                       /\ r.token_hash = sha256(client.token)
                                       /\ r.is_active}]
    /\ UNCHANGED <<use_postgresql, serials, blacklist, auth_tokens,
                   validation_logs, active_tokens, now, resp, client>>

\* if result and current_time < expires_at and is_active: UPDATE, commit
verify_update ==
    /\ req.vpc = "decide"
    /\ IF req.vres # {}
          /\ \A r \in req.vres :
                req.vnow < _parse_datetime(r.expires_at) /\ r.is_active
       THEN /\ auth_tokens' =
                 {IF r.token_hash = sha256(client.token)
                  THEN [r EXCEPT !.usage_count = @ + 1] ELSE r : r \in auth_tokens}
            /\ req' = [req EXCEPT !.vpc = "put",
                          !.vexp = _parse_datetime(
                                      (CHOOSE r \in req.vres : TRUE).expires_at)]
            /\ UNCHANGED resp
       ELSE verify_return(FALSE, FALSE) /\ UNCHANGED auth_tokens
    /\ UNCHANGED <<use_postgresql, serials, blacklist, validation_logs,
                   active_tokens, now, client>>

\* self.active_tokens[token] = {...}; return True
verify_put ==
    /\ req.vpc = "put"
    /\ active_tokens' = CachePut(active_tokens, client.token, req.vexp)
    /\ verify_return(TRUE, FALSE)
    /\ UNCHANGED <<use_postgresql, serials, blacklist, auth_tokens,
                   validation_logs, now, client>>

\* periodic_cleanup wakes: current_time = datetime.now(), the iteration over
\* self.active_tokens.items() starts
sweep_begin ==
    /\ req.cpc = "idle"
    /\ req' = [req EXCEPT !.cpc = "scan", !.cnow = now, !.cseen = active_tokens,
                          !.cdel = {}]
    /\ UNCHANGED <<use_postgresql, serials, blacklist, auth_tokens,
                   validation_logs, active_tokens, now, resp, client>>

\* the list comprehension ends: over an unchanged dictionary with the expired
\* tokens; over one that changed meanwhile with the expired tokens of the
\* old or of the new contents, or with a RuntimeError that ends the sweep
sweep_scan ==
    /\ req.cpc = "scan"
    /\ \/ \E seen \in {req.cseen, active_tokens} :
             req' = [req EXCEPT !.cpc = "del",
                        !.cdel = DOMAIN seen \ DOMAIN cleanup_cache(seen, req.cnow)]
       \/ /\ DOMAIN active_tokens # DOMAIN req.cseen
          /\ req' = [req EXCEPT !.cpc = "idle"]
    /\ UNCHANGED <<use_postgresql, serials, blacklist, auth_tokens,
                   validation_logs, active_tokens, now, resp, client>>

\* for token in expired_tokens: del self.active_tokens[token]; a token that
\* is gone raises KeyError, which ends the sweep
sweep_del ==
    /\ req.cpc = "del" /\ req.cdel # {}
    /\ \E token \in req.cdel :
          IF token \in DOMAIN active_tokens
          THEN /\ active_tokens' = CacheDel(active_tokens, token)
               /\ req' = [req EXCEPT !.cdel = @ \ {token}]
          ELSE /\ req' = [req EXCEPT !.cpc = "idle", !.cdel = {}]
               /\ UNCHANGED active_tokens
    /\ UNCHANGED <<use_postgresql, serials, blacklist, auth_tokens,
                   validation_logs, now, resp, client>>

\* UPDATE auth_tokens SET is_active = FALSE WHERE expires_at < ? AND is_active
sweep_update ==
    /\ req.cpc = "del" /\ req.cdel = {}
    /\ auth_tokens' = cleanup_table(auth_tokens, req.cnow)
    /\ req' = [req EXCEPT !.cpc = "idle"]
    /\ UNCHANGED <<use_postgresql, serials, blacklist, validation_logs,
                   active_tokens, now, resp, client>>

\* generate_validation_token: INSERT INTO auth_tokens, commit
issue_insert ==
    /\ req.ipc = "idle"
    /\ \E token \in FreshTokens :
          LET g == generate_validation_token(token, auth_tokens, active_tokens, now)
          IN /\ auth_tokens' = g.auth_tokens
             /\ req' = [req EXCEPT !.ipc = "put", !.itoken = token,
                                   !.iexp = g.active_tokens[token].expires_at]
    /\ UNCHANGED <<use_postgresql, serials, blacklist, validation_logs,
                   active_tokens, now, resp, client>>

\* generate_validation_token: self.active_tokens[token] = {...}
issue_put ==
    /\ req.ipc = "put"
    /\ active_tokens' = CachePut(active_tokens, req.itoken, req.iexp)
    /\ req' = [req EXCEPT !.ipc = "idle"]
    /\ UNCHANGED <<use_postgresql, serials, blacklist, auth_tokens,
                   validation_logs, now, resp, client>>

\* the token "t0" was issued at time 0; the client verifies it, or the token
\* that is issued during the behaviour
InitSweep ==
    /\ use_postgresql \in BOOLEAN
    /\ serials = {}
    /\ blacklist = {}
    /\ auth_tokens = first_token.auth_tokens
    /\ validation_logs = <<>>
    /\ active_tokens = first_token.active_tokens
    /\ now = 0
    /\ resp = NoResp
    /\ req = IdleSweep
    /\ client \in {Client("S1", "M1", t) : t \in {"t0", "t1"}}

NextSweep ==
    \/ verify_begin
    \/ verify_contains
    \/ verify_get
    \/ verify_compare
    \/ verify_select
    \/ verify_update
    \/ verify_put
    \/ sweep_begin
    \/ sweep_scan
    \/ sweep_del
    \/ sweep_update
    \/ issue_insert
    \/ issue_put
    \/ Tick

SpecSweep == InitSweep /\ [][NextSweep]_vars

\* C38: under every interleaving of the cleanup thread with verification and
\* issuance, a verification that answers true read the clock before the
\* token's expires_at, and a verification of a token issued before the call
\* that answers false returns at or after the token's expires_at.
C38_SweepHarmless ==
    req.vpc = "done" =>
        /\ req.vok => Issued(client.token) # {}
        /\ \A r \in Issued(client.token) :
              /\ req.vok => req.vnow < r.expires_at.t
              /\ ~req.vok /\ req.vissued => now >= r.expires_at.t

\* the sweep deleted the cache entry between the verification's membership
\* test and its read: the verification ended in its except branch
C38_Witness ==
    /\ req.vpc = "done" /\ req.verr /\ ~req.vok /\ req.vissued
    /\ client.token \notin DOMAIN active_tokens

-----------------------------------------------------------------------------
\* C39: in every state reached by Register, Revoke, Restore, the blacklist
\* cascade and RemoveFromBlacklist, a serial record is inactive exactly when
\* its revoked_date is set, and carries a revoked_reason only when inactive.
C39_RevocationConsistent ==
    \A r \in serials :
        /\ ~r.is_active <=> r.revoked_date # SqlNull
        /\ r.revoked_reason # None => ~r.is_active

\* one serial was revoked by the cascade of a ban, the other is registered
\* and active after its own revocation was undone
C39_Witness ==
    /\ \E r \in serials : Cascaded(r)
    /\ \E r \in serials : r.is_active /\ r.revoked_date = SqlNull
    /\ \E b \in blacklist : ~b.is_active

====
